---- MODULE Spec2Model ----
(***************************************************************************)
(* EnvFly: the Environment document of the backend (variables, version,    *)
(* versionHistory, auditLogs and the instance methods that change them)    *)
(* and the conflict engine of the CLI (EnvParser.detectConflicts,          *)
(* EnvParser.mergeEnvironments, resolveConflicts).                         *)
(*                                                                         *)
(* The specifications share the variables:                                 *)
(*   Spec         the Environment document under its instance methods      *)
(*   SpecAudit    addAuditLog alone, run past the 1000-entry cap           *)
(*   SpecConflict detectConflicts / mergeEnvironments on bounded snapshots *)
(*   SpecCrypto   CryptoManager.encrypt / decrypt under the stored API key *)
(***************************************************************************)
EXTENDS Integers, Sequences, FiniteSets, TLC

(* ------------------------------ bounds -------------------------------- *)
MaxHistory == 2        \* records in versionHistory
MaxEdits == 2          \* setVariable / removeVariable calls
MaxAudit == 1          \* addAuditLog calls under Spec
MaxAuditAppends == 1002 \* addAuditLog calls under SpecAudit
MaxLen == 3            \* variables in a snapshot handed to the conflict engine
MaxEncrypts == 2       \* CryptoManager.encrypt calls
MaxValueLen == 2       \* characters in a value given to the EnvParser codec
MaxEntries == 2        \* variables in a snapshot given to the EnvParser codec
MaxStores == 2         \* store calls of a storage provider per environment
MaxCommands == 2       \* invocations in a row under SpecPushes and SpecResync

(* -------------------------- program constants ------------------------- *)
AuditCap == 1000       \* "Keep only last 1000 audit logs"
DefaultVersion == 1    \* environmentSchema.version default

Keys == {"A", "B"}
EnvKeys == {"A", "B", "C"}
Values == {"1", "2"}
IVs == {0, 1}
ChangeTypes == {"update"}
AuditActions == {"push"}
Messages == {"m"}
Strategies == {"local", "remote", "merge"}
StrategyInputs == Strategies \cup {"prompt"}
UNDEFINED == "undefined"
NULL == "null"
ApiKeys == {"K1", "K2"}

VARIABLES
  variables,       \* this.variables: sequence of variable entries
  version,         \* this.version
  versionHistory,  \* this.versionHistory
  auditLogs,       \* this.auditLogs
  shared,          \* index of the versionHistory record whose variables array
                   \* is the very array this.variables refers to (0: none)
  lastCall,        \* the method called last, its argument and its outcome
  edits,           \* number of setVariable / removeVariable calls so far
  appended,        \* number of addAuditLog calls so far (the entry's timestamp)
  localEnv,        \* conflict engine: local snapshot
  remoteEnv,       \* conflict engine: remote snapshot
  strategy,        \* conflict engine: strategy given to mergeEnvironments
  conflicts,       \* result of detectConflicts(localEnv, remoteEnv)
  finalEnv,        \* result of mergeEnvironments / resolveConflicts
  phase,           \* conflict engine: which results have been computed
  storedApiKey,    \* authManager.getApiKey(): the stored API key, or NULL
  drawn,           \* number of crypto.randomBytes values drawn so far
  cryptoData,      \* the snapshot handed to CryptoManager.encrypt
  blobs,           \* the results of the encrypt calls, in call order
  cryptoResult,    \* the last encrypt / decrypt call and what it returned
  codecEnv,        \* EnvParser: the snapshot given to stringifyEnvContent
  codecText,       \* EnvParser: the text stringifyEnvContent returned
  codecParsed,     \* EnvParser: what parseEnvContent returned for codecText
  codecAgain,      \* EnvParser: stringifyEnvContent of codecParsed
  codecPc,         \* EnvParser: how far the round trip has got
  apiMethod,       \* ApiClient.request: config.method of the call under way
  apiAttempt,      \* ApiClient.request: the loop variable attempt
  apiPc,           \* ApiClient.request: where the call stands
  apiSent,         \* ApiClient.request: what each client.request met, in order
  apiDelays,       \* ApiClient.request: the delays waited, in order
  apiResult,       \* ApiClient.request: what the call returned or threw
  cloudProvider,   \* storage provider in use: "aws", "azure" or "google"
  cloudSecrets,    \* the secret service: per secret name, whether the secret
                   \* exists and the values it was given, oldest first
  cloudStored,     \* per environment, the payloads handed to store, in order
  cloudResult,     \* the last store / retrieve call and what it returned
  localFile,       \* commands: the local .env file (whether it exists, its text)
  backups,         \* commands: the texts of the backup copies made, in order
  remoteStore,     \* commands: the environment held by the EnvFly service
  manifest,        \* commands: the environment's entry in the project config
  cmd,             \* commands: the command under way and where it stands
  cmdLog,          \* commands: the steps taken by the command, in order
  finished         \* commands: the invocations that ran before this one

vars == <<variables, version, versionHistory, auditLogs, shared, lastCall,
          edits, appended, localEnv, remoteEnv, strategy, conflicts,
          finalEnv, phase, storedApiKey, drawn, cryptoData, blobs,
          cryptoResult, codecEnv, codecText, codecParsed, codecAgain, codecPc,
          apiMethod, apiAttempt, apiPc, apiSent, apiDelays, apiResult,
          cloudProvider, cloudSecrets, cloudStored, cloudResult,
          localFile, backups, remoteStore, manifest, cmd, cmdLog, finished>>

docVars == <<variables, version, versionHistory, auditLogs, shared, lastCall,
             edits, appended>>
engineVars == <<localEnv, remoteEnv, strategy, conflicts, finalEnv, phase>>
cryptoVars == <<storedApiKey, drawn, cryptoData, blobs, cryptoResult>>
\* the variables outside the Environment document and the conflict engine
codecVars == <<codecEnv, codecText, codecParsed, codecAgain, codecPc>>
apiVars == <<apiMethod, apiAttempt, apiPc, apiSent, apiDelays, apiResult>>
cloudVars == <<cloudProvider, cloudSecrets, cloudStored, cloudResult>>
cmdVars == <<localFile, backups, remoteStore, manifest, cmd, cmdLog, finished>>
extVars == <<cryptoVars, codecVars, apiVars, cloudVars, cmdVars>>
\* what the CryptoManager calls leave alone
exceptCrypto == <<docVars, engineVars, codecVars, apiVars, cloudVars, cmdVars>>
\* what the EnvParser text conversions leave alone
exceptCodec == <<docVars, engineVars, cryptoVars, apiVars, cloudVars, cmdVars>>
\* what ApiClient.request leaves alone
exceptApi == <<docVars, engineVars, cryptoVars, codecVars, cloudVars, cmdVars>>
\* what the storage providers leave alone
exceptCloud == <<docVars, engineVars, cryptoVars, codecVars, apiVars, cmdVars>>
\* what the push, pull and sync commands leave alone
exceptCommands == <<docVars, codecVars, apiVars, cloudVars, phase, cryptoData,
                    blobs, cryptoResult, finished>>

(* ------------------------------ helpers ------------------------------- *)
\* Array.prototype.findIndex(v => v.key === key), 1-based; 0 when absent
FindIndex(vs, key) ==
  IF \E i \in DOMAIN vs : vs[i].key = key
    THEN CHOOSE i \in DOMAIN vs : vs[i].key = key /\ \A j \in 1..(i-1) : vs[j].key # key
    ELSE 0

\* Array.prototype.splice(index, 1)
Splice(s, index) == SubSeq(s, 1, index - 1) \o SubSeq(s, index + 1, Len(s))

\* Array.prototype.slice(-n)
SliceLast(s, n) == IF Len(s) <= n THEN s ELSE SubSeq(s, Len(s) - n + 1, Len(s))

\* JSON.parse(JSON.stringify(variables)): a fresh array of fresh objects
\* carrying the same fields
JSONClone(vs) ==
  [i \in DOMAIN vs |->
     [key |-> vs[i].key, value |-> vs[i].value, isSecret |-> vs[i].isSecret,
      encrypted |-> vs[i].encrypted, encryptedValue |-> vs[i].encryptedValue]]

\* environmentSchema.methods.encryptValue: `${iv}:${encrypted}`
encryptValue(value, iv) == <<iv, value>>

\* the entries the pre-save middleware encrypts
NeedsEncryption(vs) ==
  {i \in DOMAIN vs : vs[i].isSecret /\ ~vs[i].encrypted /\ vs[i].value # ""}

\* environmentSchema.pre('save') when this.isModified('variables')
PreSave(vs, ivOf) ==
  [i \in DOMAIN vs |->
     IF i \in NeedsEncryption(vs)
       THEN [vs[i] EXCEPT !.encryptedValue = encryptValue(vs[i].value, ivOf[i]),
                          !.encrypted = TRUE,
                          !.value = ""]
       ELSE vs[i]]

\* the records of versionHistory seen through the array they hold: the record
\* at index `shared` holds the array that this.variables refers to
WithShared(history, sh, vs) ==
  IF sh = 0 THEN history ELSE [history EXCEPT ![sh].variables = vs]

(* --------------------- Environment document: Init --------------------- *)
EngineIdle ==
  /\ localEnv = <<>>
  /\ remoteEnv = <<>>
  /\ strategy = "local"
  /\ conflicts = [added |-> <<>>, removed |-> <<>>, modified |-> <<>>, unchanged |-> <<>>]
  /\ finalEnv = <<>>
  /\ phase = "idle"

DocNew ==
  /\ variables = <<>>
  /\ version = DefaultVersion
  /\ versionHistory = <<>>
  /\ auditLogs = <<>>
  /\ shared = 0
  /\ lastCall = [op |-> "new", arg |-> 0, error |-> "none"]
  /\ edits = 0
  /\ appended = 0

NoCall == [op |-> "none", index |-> 0, alteration |-> "none", apiKey |-> NULL,
           ok |-> FALSE, data |-> <<>>]

CryptoIdle ==
  /\ storedApiKey = NULL
  /\ drawn = 0
  /\ cryptoData = <<>>
  /\ blobs = <<>>
  /\ cryptoResult = NoCall

CodecIdle ==
  /\ codecEnv = <<>>
  /\ codecText = <<>>
  /\ codecParsed = <<>>
  /\ codecAgain = <<>>
  /\ codecPc = "idle"

\* no Error object
NoError == [message |-> "none", hasResponse |-> FALSE, status |-> 0]

ApiIdle ==
  /\ apiMethod = NULL
  /\ apiAttempt = 0
  /\ apiPc = "idle"
  /\ apiSent = <<>>
  /\ apiDelays = <<>>
  /\ apiResult = [returned |-> FALSE, thrown |-> FALSE, error |-> NoError]

\* the environments a provider is asked to store
Environments == {"dev", "prod"}
CloudProviders == {"aws", "azure", "google"}
\* `${this.prefix}/${environment}` (AWS), `${this.prefix}-${environment}`
SecretName(provider, environment) ==
  <<"envfly", IF provider = "aws" THEN "/" ELSE "-", environment>>
SecretNames == {SecretName(p, e) : p \in CloudProviders, e \in Environments}
NoSecret == [exists |-> FALSE, values |-> <<>>]
NoCloudCall == [op |-> "none", environment |-> NULL, ok |-> FALSE, variables |-> <<>>]

CloudIdle ==
  /\ cloudProvider = NULL
  /\ cloudSecrets = [name \in SecretNames |-> NoSecret]
  /\ cloudStored = [environment \in Environments |-> <<>>]
  /\ cloudResult = NoCloudCall

\* no payload: the service holds no environment
NoPayload == [form |-> "none", env |-> <<>>, blob |-> <<>>]
NoCommand == [name |-> "none", force |-> FALSE, pc |-> "idle", outcome |-> "none",
              existed |-> FALSE, fetched |-> FALSE, errors |-> <<>>]

CommandsIdle ==
  /\ localFile = [exists |-> FALSE, content |-> <<>>]
  /\ backups = <<>>
  /\ remoteStore = [exists |-> FALSE, payload |-> NoPayload, encrypted |-> FALSE]
  /\ manifest = [remote_id |-> NULL, encryption |-> TRUE,
                  last_push |-> 0, last_pull |-> 0, last_sync |-> 0]
  /\ cmd = NoCommand
  /\ cmdLog = <<>>
  /\ finished = <<>>

ExtIdle == CryptoIdle /\ CodecIdle /\ ApiIdle /\ CloudIdle /\ CommandsIdle

Init == DocNew /\ EngineIdle /\ ExtIdle

(* ------------------- Environment document: methods -------------------- *)
setVariable(key, value, isSecret) ==
  LET existingIndex == FindIndex(variables, key)
      variableData == [key |-> key, value |-> value, isSecret |-> isSecret,
                       encrypted |-> FALSE, encryptedValue |-> <<>>]
      assigned == IF existingIndex >= 1
                    THEN [variables EXCEPT ![existingIndex] = variableData]
                    ELSE Append(variables, variableData)
  IN /\ \E ivOf \in [NeedsEncryption(assigned) -> IVs] :
          variables' = PreSave(assigned, ivOf)
     /\ versionHistory' = WithShared(versionHistory, shared, variables')
     /\ lastCall' = [op |-> "setVariable", arg |-> 0, error |-> "none"]
     /\ edits' = edits + 1
     /\ UNCHANGED <<version, auditLogs, shared, appended>>
     /\ UNCHANGED <<engineVars, extVars>>

removeVariable(key) ==
  LET index == FindIndex(variables, key)
  IN /\ variables' = IF index >= 1 THEN Splice(variables, index) ELSE variables
     /\ versionHistory' = WithShared(versionHistory, shared, variables')
     /\ lastCall' = [op |-> "removeVariable", arg |-> 0, error |-> "none"]
     /\ edits' = edits + 1
     /\ UNCHANGED <<version, auditLogs, shared, appended>>
     /\ UNCHANGED <<engineVars, extVars>>

\* createVersion storing this.version + 2 (a number is skipped)
createVersion_SkipsNumber(message, changeType) ==
  LET versionData == [version |-> version + 2,
                      variables |-> JSONClone(variables),
                      message |-> <<message>>,
                      changeType |-> changeType]
  IN /\ versionHistory' = Append(versionHistory, versionData)
     /\ version' = versionData.version
     /\ lastCall' = [op |-> "createVersion", arg |-> 0, error |-> "none"]
     /\ UNCHANGED <<variables, auditLogs, shared, edits, appended>>
     /\ UNCHANGED <<engineVars, extVars>>

createVersion(message, changeType) ==
  LET versionData == [version |-> version + 1,
                      variables |-> JSONClone(variables),
                      message |-> <<message>>,
                      changeType |-> changeType]
  IN /\ versionHistory' = Append(versionHistory, versionData)
     /\ version' = versionData.version
     /\ lastCall' = [op |-> "createVersion", arg |-> 0, error |-> "none"]
     /\ UNCHANGED <<variables, auditLogs, shared, edits, appended>>
     /\ UNCHANGED <<engineVars, extVars>>

\* addAuditLog trimming with slice(0, 1000): keeps the oldest entries
addAuditLog_KeepsOldest(action) ==
  LET pushed == Append(auditLogs, [action |-> action, timestamp |-> appended + 1])
  IN /\ auditLogs' = IF Len(pushed) > AuditCap THEN SubSeq(pushed, 1, AuditCap) ELSE pushed
     /\ appended' = appended + 1
     /\ lastCall' = [op |-> "addAuditLog", arg |-> 0, error |-> "none"]
     /\ UNCHANGED <<variables, version, versionHistory, shared, edits>>
     /\ UNCHANGED <<engineVars, extVars>>

addAuditLog(action) ==
  LET pushed == Append(auditLogs, [action |-> action, timestamp |-> appended + 1])
  IN /\ auditLogs' = IF Len(pushed) > AuditCap THEN SliceLast(pushed, AuditCap) ELSE pushed
     /\ appended' = appended + 1
     /\ lastCall' = [op |-> "addAuditLog", arg |-> 0, error |-> "none"]
     /\ UNCHANGED <<variables, version, versionHistory, shared, edits>>
     /\ UNCHANGED <<engineVars, extVars>>

\* versionHistory.find(v => v.version === version), 0 when absent
FindVersion(history, v) ==
  IF \E i \in DOMAIN history : history[i].version = v
    THEN CHOOSE i \in DOMAIN history :
           history[i].version = v /\ \A j \in 1..(i-1) : history[j].version # v
    ELSE 0

\* rollbackToVersion without this.version = this.version + 1
rollbackToVersion_NoIncrement(v, keepsReference) ==
  LET target == FindVersion(versionHistory, v)
  IN IF target = 0
       THEN /\ lastCall' = [op |-> "rollbackToVersion", arg |-> v, error |-> "VersionNotFound"]
            /\ UNCHANGED <<variables, version, versionHistory, auditLogs, shared, edits, appended>>
            /\ UNCHANGED <<engineVars, extVars>>
       ELSE /\ Len(versionHistory) < MaxHistory
            /\ \E ivOf \in [NeedsEncryption(JSONClone(versionHistory[target].variables)) -> IVs] :
                 variables' = PreSave(JSONClone(versionHistory[target].variables), ivOf)
            /\ version' = version
            /\ versionHistory' =
                 Append(versionHistory,
                        [version |-> version',
                         variables |-> IF keepsReference THEN variables'
                                      ELSE JSONClone(versionHistory[target].variables),
                         message |-> <<"Rollback to version", v>>,
                         changeType |-> "update"])
            /\ shared' = IF keepsReference THEN Len(versionHistory') ELSE 0
            /\ lastCall' = [op |-> "rollbackToVersion", arg |-> v, error |-> "none"]
            /\ UNCHANGED <<auditLogs, edits, appended>>
            /\ UNCHANGED <<engineVars, extVars>>

\* rollbackToVersion pushing the record before this.variables is assigned
rollbackToVersion_PushesFirst(v, keepsReference) ==
  LET target == FindVersion(versionHistory, v)
  IN IF target = 0
       THEN /\ lastCall' = [op |-> "rollbackToVersion", arg |-> v, error |-> "VersionNotFound"]
            /\ UNCHANGED <<variables, version, versionHistory, auditLogs, shared, edits, appended>>
            /\ UNCHANGED <<engineVars, extVars>>
       ELSE /\ Len(versionHistory) < MaxHistory
            /\ \E ivOf \in [NeedsEncryption(JSONClone(versionHistory[target].variables)) -> IVs] :
                 variables' = PreSave(JSONClone(versionHistory[target].variables), ivOf)
            /\ version' = version + 1
            /\ versionHistory' =
                 Append(versionHistory,
                        [version |-> version',
                         variables |-> JSONClone(variables),
                         message |-> <<"Rollback to version", v>>,
                         changeType |-> "update"])
            /\ shared' = IF keepsReference THEN Len(versionHistory') ELSE 0
            /\ lastCall' = [op |-> "rollbackToVersion", arg |-> v, error |-> "none"]
            /\ UNCHANGED <<auditLogs, edits, appended>>
            /\ UNCHANGED <<engineVars, extVars>>

\* rollbackToVersion bumping this.version before the target is looked up
rollbackToVersion_LateCheck(v, keepsReference) ==
  LET target == FindVersion(versionHistory, v)
  IN IF target = 0
       THEN /\ lastCall' = [op |-> "rollbackToVersion", arg |-> v, error |-> "VersionNotFound"]
            /\ version' = version + 1
            /\ UNCHANGED <<variables, versionHistory, auditLogs, shared, edits, appended>>
            /\ UNCHANGED <<engineVars, extVars>>
       ELSE /\ Len(versionHistory) < MaxHistory
            /\ \E ivOf \in [NeedsEncryption(JSONClone(versionHistory[target].variables)) -> IVs] :
                 variables' = PreSave(JSONClone(versionHistory[target].variables), ivOf)
            /\ version' = version + 1
            /\ versionHistory' =
                 Append(versionHistory,
                        [version |-> version',
                         variables |-> IF keepsReference THEN variables'
                                      ELSE JSONClone(versionHistory[target].variables),
                         message |-> <<"Rollback to version", v>>,
                         changeType |-> "update"])
            /\ shared' = IF keepsReference THEN Len(versionHistory') ELSE 0
            /\ lastCall' = [op |-> "rollbackToVersion", arg |-> v, error |-> "none"]
            /\ UNCHANGED <<auditLogs, edits, appended>>
            /\ UNCHANGED <<engineVars, extVars>>

\* rollbackToVersion pushes { variables: this.variables } itself: whether the
\* stored record keeps that very array or a copy of it is decided by the
\* array's push, which the method does not control; both outcomes are taken.
\* The record is pushed before save() runs the pre-save middleware, so a copy
\* holds the array as assigned and a kept reference sees it as saved.
rollbackToVersion(v, keepsReference) ==
  LET target == FindVersion(versionHistory, v)
  IN IF target = 0
       THEN /\ lastCall' = [op |-> "rollbackToVersion", arg |-> v, error |-> "VersionNotFound"]
            /\ UNCHANGED <<variables, version, versionHistory, auditLogs, shared, edits, appended>>
            /\ UNCHANGED <<engineVars, extVars>>
       ELSE /\ Len(versionHistory) < MaxHistory
            /\ \E ivOf \in [NeedsEncryption(JSONClone(versionHistory[target].variables)) -> IVs] :
                 variables' = PreSave(JSONClone(versionHistory[target].variables), ivOf)
            /\ version' = version + 1
            /\ versionHistory' =
                 Append(versionHistory,
                        [version |-> version',
                         variables |-> IF keepsReference THEN variables'
                                      ELSE JSONClone(versionHistory[target].variables),
                         message |-> <<"Rollback to version", v>>,
                         changeType |-> "update"])
            /\ shared' = IF keepsReference THEN Len(versionHistory') ELSE 0
            /\ lastCall' = [op |-> "rollbackToVersion", arg |-> v, error |-> "none"]
            /\ UNCHANGED <<auditLogs, edits, appended>>
            /\ UNCHANGED <<engineVars, extVars>>

Next ==
  \/ \E k \in Keys, val \in Values, s \in BOOLEAN :
       edits < MaxEdits /\ setVariable(k, val, s)
  \/ \E k \in Keys : edits < MaxEdits /\ removeVariable(k)
  \/ \E m \in Messages, c \in ChangeTypes :
       Len(versionHistory) < MaxHistory /\ createVersion(m, c)
  \/ \E a \in AuditActions : appended < MaxAudit /\ addAuditLog(a)
  \/ \E v \in 1..(MaxHistory + 1), r \in BOOLEAN : rollbackToVersion(v, r)

Spec == Init /\ [][Next]_vars

(* -------------------------- conflict engine --------------------------- *)
\* snapshots: insertion-ordered objects, as sequences of key/value pairs
\* with pairwise distinct keys
Snapshots ==
  {s \in UNION {[1..n -> [key : EnvKeys, value : Values]] : n \in 0..MaxLen} :
     \A i, j \in DOMAIN s : i # j => s[i].key # s[j].key}

\* Object.keys(env)
ObjectKeys(env) == [i \in DOMAIN env |-> env[i].key]

KeySet(env) == {env[i].key : i \in DOMAIN env}

\* env[key]: undefined when the object has no such property
Lookup(env, key) ==
  IF \E i \in DOMAIN env : env[i].key = key
    THEN (CHOOSE e \in {env[i] : i \in DOMAIN env} : e.key = key).value
    ELSE UNDEFINED

\* new Set([...Object.keys(localEnv), ...Object.keys(remoteEnv)]) in its
\* iteration order: first occurrences, in insertion order
AllKeys(l, r) ==
  LET inLocal(k) == k \notin KeySet(l)
  IN ObjectKeys(l) \o SelectSeq(ObjectKeys(r), inLocal)

\* { ...a, ...b }: a's properties in order, overwritten by b's values, then
\* b's remaining properties in order
Spread(a, b) ==
  LET notInA(e) == e.key \notin KeySet(a)
  IN [i \in DOMAIN a |->
        IF a[i].key \in KeySet(b)
          THEN [key |-> a[i].key, value |-> Lookup(b, a[i].key)]
          ELSE a[i]]
     \o SelectSeq(b, notInA)

NoConflicts == [added |-> <<>>, removed |-> <<>>, modified |-> <<>>, unchanged |-> <<>>]

\* the loop body pushing a modified key to unchanged as well
Classify_ModifiedAlsoUnchanged(acc, key, l, r) ==
  LET localValue == Lookup(l, key)
      remoteValue == Lookup(r, key)
  IN IF localValue = UNDEFINED /\ remoteValue # UNDEFINED
       THEN [acc EXCEPT !.added = Append(@, [key |-> key, value |-> remoteValue])]
     ELSE IF localValue # UNDEFINED /\ remoteValue = UNDEFINED
       THEN [acc EXCEPT !.removed = Append(@, [key |-> key, value |-> localValue])]
     ELSE IF localValue # remoteValue
       THEN [acc EXCEPT !.modified =
               Append(@, [key |-> key, localValue |-> localValue, remoteValue |-> remoteValue]),
                        !.unchanged = Append(@, [key |-> key, value |-> localValue])]
     ELSE [acc EXCEPT !.unchanged = Append(@, [key |-> key, value |-> localValue])]

\* the loop body pushing { key, value: localValue } to added
Classify_AddedGetsLocalValue(acc, key, l, r) ==
  LET localValue == Lookup(l, key)
      remoteValue == Lookup(r, key)
  IN IF localValue = UNDEFINED /\ remoteValue # UNDEFINED
       THEN [acc EXCEPT !.added = Append(@, [key |-> key, value |-> localValue])]
     ELSE IF localValue # UNDEFINED /\ remoteValue = UNDEFINED
       THEN [acc EXCEPT !.removed = Append(@, [key |-> key, value |-> localValue])]
     ELSE IF localValue # remoteValue
       THEN [acc EXCEPT !.modified =
               Append(@, [key |-> key, localValue |-> localValue, remoteValue |-> remoteValue])]
     ELSE [acc EXCEPT !.unchanged = Append(@, [key |-> key, value |-> localValue])]

\* one iteration of the for-loop of detectConflicts
Classify(acc, key, l, r) ==
  LET localValue == Lookup(l, key)
      remoteValue == Lookup(r, key)
  IN IF localValue = UNDEFINED /\ remoteValue # UNDEFINED
       THEN [acc EXCEPT !.added = Append(@, [key |-> key, value |-> remoteValue])]
     ELSE IF localValue # UNDEFINED /\ remoteValue = UNDEFINED
       THEN [acc EXCEPT !.removed = Append(@, [key |-> key, value |-> localValue])]
     ELSE IF localValue # remoteValue
       THEN [acc EXCEPT !.modified =
               Append(@, [key |-> key, localValue |-> localValue, remoteValue |-> remoteValue])]
     ELSE [acc EXCEPT !.unchanged = Append(@, [key |-> key, value |-> localValue])]

RECURSIVE DetectLoop(_, _, _, _)
DetectLoop(acc, keys, l, r) ==
  IF keys = <<>> THEN acc
  ELSE DetectLoop(Classify(acc, Head(keys), l, r), Tail(keys), l, r)

\* EnvParser.detectConflicts(localEnv, remoteEnv)
detectConflicts(l, r) == DetectLoop(NoConflicts, AllKeys(l, r), l, r)

\* mergeEnvironments with the spreads of 'local' in the order of 'remote'
mergeEnvironments_LocalSpreadsRemoteLast(l, r, s) ==
  CASE s = "local" -> Spread(l, r)
    [] s = "remote" -> Spread(l, r)
    [] s = "merge" -> Spread(l, r)

\* EnvParser.mergeEnvironments(localEnv, remoteEnv, strategy); only called
\* with a strategy of Strategies (any other throws)
mergeEnvironments(l, r, s) ==
  CASE s = "local" -> Spread(r, l)
    [] s = "remote" -> Spread(l, r)
    [] s = "merge" -> Spread(l, r)

\* the switch of resolveConflicts that computes finalEnv
resolveFinalEnv(l, r, resolution) ==
  CASE resolution = "local" -> Spread(r, l)
    [] resolution = "remote" -> Spread(l, r)
    [] resolution = "merge" -> Spread(l, r)

InitConflict ==
  /\ DocNew
  /\ ExtIdle
  /\ localEnv \in Snapshots
  /\ remoteEnv \in Snapshots
  /\ strategy = "prompt"
  /\ conflicts = NoConflicts
  /\ finalEnv = <<>>
  /\ phase = "inputs"

DetectConflicts ==
  /\ phase = "inputs"
  /\ conflicts' = detectConflicts(localEnv, remoteEnv)
  /\ phase' = "detected"
  /\ UNCHANGED <<localEnv, remoteEnv, strategy, finalEnv>>
  /\ UNCHANGED <<docVars, extVars>>

MergeEnvironments(s) ==
  /\ phase = "detected"
  /\ strategy' = s
  /\ IF s \in Strategies
       THEN finalEnv' = mergeEnvironments(localEnv, remoteEnv, s) /\ phase' = "merged"
       ELSE finalEnv' = finalEnv /\ phase' = "unknownStrategy"
  /\ UNCHANGED <<localEnv, remoteEnv, conflicts>>
  /\ UNCHANGED <<docVars, extVars>>

ResolveConflicts(resolution) ==
  /\ phase = "detected"
  /\ strategy' = resolution
  /\ IF resolution \in Strategies
       THEN finalEnv' = resolveFinalEnv(localEnv, remoteEnv, resolution) /\ phase' = "resolved"
       ELSE finalEnv' = finalEnv /\ phase' = "unknownResolution"
  /\ UNCHANGED <<localEnv, remoteEnv, conflicts>>
  /\ UNCHANGED <<docVars, extVars>>

NextConflict ==
  \/ DetectConflicts
  \/ \E s \in StrategyInputs : MergeEnvironments(s)
  \/ \E s \in StrategyInputs : ResolveConflicts(s)

SpecConflict == InitConflict /\ [][NextConflict]_vars

(* --------------------------- SpecAudit -------------------------------- *)
NextAudit ==
  \E a \in AuditActions : appended < MaxAuditAppends /\ addAuditLog(a)

SpecAudit == Init /\ [][NextAudit]_vars

(* ======================= claims: Environment document ================== *)
Last(seq) == seq[Len(seq)]
Min(a, b) == IF a < b THEN a ELSE b

\* C1 (SpecAudit): after every addAuditLog call the audit log holds at most
\* 1000 entries, exactly the most recent min(n, 1000) of the n appended
\* entries, oldest first; after 1001 appends it holds 1000 entries and the
\* oldest retained one is append #2.
C1_AuditLogKeepsLast1000 ==
  /\ Len(auditLogs) <= AuditCap
  /\ Len(auditLogs) = Min(appended, AuditCap)
  /\ \A i \in DOMAIN auditLogs :
       auditLogs[i].timestamp = appended - Len(auditLogs) + i
  /\ appended = AuditCap + 1 =>
       Len(auditLogs) = AuditCap /\ auditLogs[1].timestamp = 2

C1_Witness ==
  /\ appended = AuditCap + 1
  /\ lastCall.op = "addAuditLog"
  /\ Len(auditLogs) = AuditCap
  /\ auditLogs[1].timestamp = 2

\* C2: every createVersion call sets version to the previous version + 1 and
\* appends one record carrying that number; under any sequence of
\* createVersion and rollbackToVersion calls the version numbers of
\* versionHistory are strictly increasing.
C2_VersionsStrictlyIncrease ==
  /\ [](\A i, j \in DOMAIN versionHistory :
          i < j => versionHistory[i].version < versionHistory[j].version)
  /\ [][lastCall'.op = "createVersion" =>
          /\ version' = version + 1
          /\ Len(versionHistory') = Len(versionHistory) + 1
          /\ SubSeq(versionHistory', 1, Len(versionHistory)) = versionHistory
          /\ Last(versionHistory').version = version']_vars

C2_Witness ==
  /\ lastCall.op = "createVersion"
  /\ Len(versionHistory) >= 2
  /\ Last(versionHistory).version = version
  /\ version = DefaultVersion + 2

\* C3: a rollbackToVersion(v) that finds a record with version v appends
\* exactly one record, whose snapshot is that of record v and whose version
\* number exceeds that of every earlier record, and sets the current
\* variables to that snapshot.
C3_RollbackAppendsTargetSnapshot ==
  [][(lastCall'.op = "rollbackToVersion" /\ lastCall'.error = "none") =>
       LET target == FindVersion(versionHistory, lastCall'.arg)
       IN /\ target # 0
          /\ Len(versionHistory') = Len(versionHistory) + 1
          /\ SubSeq(versionHistory', 1, Len(versionHistory)) = versionHistory
          /\ Last(versionHistory').variables = versionHistory[target].variables
          /\ \A i \in DOMAIN versionHistory :
               versionHistory[i].version < Last(versionHistory').version
          /\ variables' = versionHistory[target].variables]_vars

C3_Witness ==
  /\ lastCall.op = "rollbackToVersion"
  /\ lastCall.error = "none"
  /\ Len(variables) > 0
  /\ Last(versionHistory).variables = variables
  /\ \E i \in 1..(Len(versionHistory) - 1) :
       /\ versionHistory[i].version = lastCall.arg
       /\ versionHistory[i].variables = variables

C5_RollbackOfMissingVersionFails ==
  [][(lastCall'.op = "rollbackToVersion"
        /\ FindVersion(versionHistory, lastCall'.arg) = 0) =>
       /\ lastCall'.error = "VersionNotFound"
       /\ variables' = variables
       /\ version' = version
       /\ versionHistory' = versionHistory]_vars

C5_Witness ==
  /\ lastCall.op = "rollbackToVersion"
  /\ lastCall.error = "VersionNotFound"
  /\ Len(versionHistory) > 0
  /\ Len(variables) > 0

\* C6 as stated: the version numbers of the records are 1, 2, ..., n.
C6_VersionsStartAtOne ==
  \A i \in DOMAIN versionHistory : versionHistory[i].version = i

\* C6 as amended: the version numbers of the records are the gap-free
\* sequence 2, 3, ..., n + 1: a new environment is at version 1 with no
\* record, the first record carries version 2 and each later record the next
\* integer; the current version is that of the last record.
C6_VersionsGapFreeFromTwo ==
  /\ \A i \in DOMAIN versionHistory :
       versionHistory[i].version = DefaultVersion + i
  /\ version = DefaultVersion + Len(versionHistory)

C6_Witness ==
  /\ Len(versionHistory) >= 2
  /\ versionHistory[1].version = 2
  /\ Last(versionHistory).version = Len(versionHistory) + 1

\* C7: the stored snapshot never changes without exactly one VersionRecord
\* and exactly one AuditEntry being appended by the same operation.
C7_MutationAppendsVersionAndAudit ==
  [][variables' # variables =>
       /\ Len(versionHistory') = Len(versionHistory) + 1
       /\ appended' = appended + 1]_vars

(* ========================= claims: conflict engine ===================== *)
EntryKeys(list) == {list[i].key : i \in DOMAIN list}
Entries(list) == {list[i] : i \in DOMAIN list}
NoDuplicateKey(list) == \A i, j \in DOMAIN list : i # j => list[i].key # list[j].key
UnionKeys == KeySet(localEnv) \cup KeySet(remoteEnv)
Detected == phase \in {"detected", "merged", "resolved", "unknownStrategy", "unknownResolution"}

\* C8: detectConflicts(local, remote) places every key of the union of both
\* key sets in exactly one of added / removed / modified / unchanged:
\* remote-only keys in added with the remote value, local-only keys in
\* removed with the local value, keys with different values in modified with
\* both values, keys with equal values in unchanged; detect(s, s) has only
\* unchanged entries.
C8_DetectPartitionsUnion ==
  Detected =>
    /\ EntryKeys(conflicts.added) \cup EntryKeys(conflicts.removed)
         \cup EntryKeys(conflicts.modified) \cup EntryKeys(conflicts.unchanged) = UnionKeys
    /\ Len(conflicts.added) + Len(conflicts.removed) + Len(conflicts.modified)
         + Len(conflicts.unchanged) = Cardinality(UnionKeys)
    /\ \A k \in UnionKeys :
         LET lv == Lookup(localEnv, k)
             rv == Lookup(remoteEnv, k)
         IN /\ k \notin KeySet(localEnv) =>
                 [key |-> k, value |-> rv] \in Entries(conflicts.added)
            /\ k \notin KeySet(remoteEnv) =>
                 [key |-> k, value |-> lv] \in Entries(conflicts.removed)
            /\ (k \in KeySet(localEnv) \cap KeySet(remoteEnv) /\ lv # rv) =>
                 [key |-> k, localValue |-> lv, remoteValue |-> rv] \in Entries(conflicts.modified)
            /\ (k \in KeySet(localEnv) \cap KeySet(remoteEnv) /\ lv = rv) =>
                 [key |-> k, value |-> lv] \in Entries(conflicts.unchanged)
    /\ localEnv = remoteEnv =>
         /\ conflicts.added = <<>>
         /\ conflicts.removed = <<>>
         /\ conflicts.modified = <<>>
         /\ EntryKeys(conflicts.unchanged) = KeySet(localEnv)

C8_Witness ==
  /\ phase = "detected"
  /\ Len(conflicts.added) = 1
  /\ Len(conflicts.removed) = 1
  /\ Len(conflicts.modified) = 1

\* C9: detection is symmetric: the added set of detect(a, b) is the removed
\* set of detect(b, a) and vice versa, the modified entries of detect(b, a)
\* are those of detect(a, b) with the two values swapped, and the unchanged
\* sets are equal.
C9_DetectSymmetric ==
  Detected =>
    LET swapped == detectConflicts(remoteEnv, localEnv)
    IN /\ Entries(conflicts.added) = Entries(swapped.removed)
       /\ Entries(conflicts.removed) = Entries(swapped.added)
       /\ Entries(swapped.modified) =
            {[key |-> m.key, localValue |-> m.remoteValue, remoteValue |-> m.localValue] :
               m \in Entries(conflicts.modified)}
       /\ Entries(conflicts.unchanged) = Entries(swapped.unchanged)

C9_Witness ==
  /\ phase = "detected"
  /\ Len(conflicts.added) = 2
  /\ Len(conflicts.removed) = 0
  /\ Len(conflicts.modified) = 1

\* C10: under each of local / remote / merge the key set of the merged
\* snapshot is the union of both key sets, a key present on one side only
\* keeps that side's value, and a key defined by both sides holds the local
\* value under 'local' and the remote value under 'remote'.
C10_MergeKeepsUnion ==
  phase \in {"merged", "resolved"} =>
    /\ KeySet(finalEnv) = UnionKeys
    /\ NoDuplicateKey(finalEnv)
    /\ \A k \in UnionKeys :
         /\ k \notin KeySet(remoteEnv) => Lookup(finalEnv, k) = Lookup(localEnv, k)
         /\ k \notin KeySet(localEnv) => Lookup(finalEnv, k) = Lookup(remoteEnv, k)
         /\ k \in KeySet(localEnv) \cap KeySet(remoteEnv) =>
              /\ strategy = "local" => Lookup(finalEnv, k) = Lookup(localEnv, k)
              /\ strategy = "remote" => Lookup(finalEnv, k) = Lookup(remoteEnv, k)

C10_Witness ==
  /\ phase = "merged"
  /\ strategy = "local"
  /\ KeySet(localEnv) \ KeySet(remoteEnv) # {}
  /\ KeySet(remoteEnv) \ KeySet(localEnv) # {}
  /\ \E k \in KeySet(localEnv) \cap KeySet(remoteEnv) :
       /\ Lookup(localEnv, k) # Lookup(remoteEnv, k)
       /\ Lookup(finalEnv, k) = Lookup(localEnv, k)

(* ============================ CryptoManager ============================ *)
\* this.algorithm
Algorithm == "aes-256-gcm"
\* Buffer.from('envfly-cli', 'utf8'), the associated data
AAD == "envfly-cli"
\* this.tagLength: the length in bytes of the tag cipher.getAuthTag() returns
TagLength == 16
\* the tag lengths decipher.setAuthTag accepts in GCM mode when the decipher
\* was created without an authTagLength option
GCMTagLengths == {4, 8, 12, 13, 14, 15, 16}
Alterations == {"none", "ciphertext", "tag", "tagTruncated", "algorithm", "salt", "iv"}

\* JSON.stringify of an object with string values, as its token sequence
RECURSIVE JSONMembers(_)
JSONMembers(env) ==
  IF env = <<>> THEN <<>>
  ELSE <<Head(env).key, ":", Head(env).value>>
         \o (IF Tail(env) = <<>> THEN <<>> ELSE <<",">> \o JSONMembers(Tail(env)))

JSONStringify(env) == <<"{">> \o JSONMembers(env) \o <<"}">>

\* JSON.parse: the members between the braces, NULL on a SyntaxError
RECURSIVE JSONParseMembers(_)
JSONParseMembers(tokens) ==
  IF Len(tokens) < 3 \/ tokens[2] # ":" THEN NULL
  ELSE LET member == <<[key |-> tokens[1], value |-> tokens[3]]>>
       IN IF Len(tokens) = 3 THEN member
          ELSE IF tokens[4] # "," THEN NULL
          ELSE LET rest == JSONParseMembers(SubSeq(tokens, 5, Len(tokens)))
               IN IF rest = NULL THEN NULL ELSE member \o rest

JSONParse(text) ==
  IF Len(text) < 2 \/ Head(text) # "{" \/ text[Len(text)] # "}" THEN NULL
  ELSE IF Len(text) = 2 THEN <<>>
  ELSE JSONParseMembers(SubSeq(text, 2, Len(text) - 1))

\* crypto.pbkdf2Sync(apiKey, salt, iterations, keyLength, 'sha512')
deriveKey(apiKey, salt) == <<"pbkdf2", apiKey, salt>>

\* cipher.update + cipher.final of crypto.createCipher(algorithm, key): the
\* cipher is keyed by `key` alone (createCipher takes no iv)
Cipher(key, plaintext) == [key |-> key, plaintext |-> plaintext]

\* cipher.getAuthTag(): binds the key, the ciphertext and the associated data
AuthTag(key, ciphertext, aad) ==
  [key |-> key, ciphertext |-> ciphertext, aad |-> aad, length |-> TagLength]

\* decipher.setAuthTag(tag) followed by decipher.final(): setAuthTag throws on
\* a length GCM does not allow, final compares the bytes of the tag handed in
\* with the leading bytes of the computed tag
TagVerifies(tag, key, ciphertext, aad) ==
  /\ tag.length \in GCMTagLengths
  /\ [tag EXCEPT !.length = TagLength] = AuthTag(key, ciphertext, aad)

\* decipher.update: under another key the output is not the plaintext
Decipher(key, ciphertext) ==
  IF ciphertext.key = key THEN ciphertext.plaintext ELSE <<"garbage">>

\* CryptoManager.encrypt(data), given the values its randomBytes calls return
encrypt(data, apiKey, salt, iv) ==
  IF apiKey = NULL
    THEN [ok |-> FALSE, blob |-> NULL]
    ELSE LET key == deriveKey(apiKey, salt)
             encrypted == Cipher(key, JSONStringify(data))
         IN [ok |-> TRUE,
             blob |-> [encrypted |-> encrypted, iv |-> iv,
                       tag |-> AuthTag(key, encrypted, AAD),
                       salt |-> salt, algorithm |-> Algorithm]]

\* CryptoManager.decrypt(encryptedData): every throw is rethrown as
\* 'Decryption failed'; decipher.final throws unless the tag matches
decrypt(encryptedData, apiKey) ==
  IF apiKey = NULL THEN [ok |-> FALSE, data |-> <<>>]
  ELSE IF encryptedData.algorithm # Algorithm THEN [ok |-> FALSE, data |-> <<>>]
  ELSE LET key == deriveKey(apiKey, encryptedData.salt)
           decrypted == Decipher(key, encryptedData.encrypted)
       IN IF ~TagVerifies(encryptedData.tag, key, encryptedData.encrypted, AAD)
            THEN [ok |-> FALSE, data |-> <<>>]
          ELSE IF JSONParse(decrypted) = NULL
            THEN [ok |-> FALSE, data |-> <<>>]
            ELSE [ok |-> TRUE, data |-> JSONParse(decrypted)]

\* a blob as an attacker or a faulty store hands it back: one field replaced.
\* A changed ciphertext deciphers, under the same key, to another plaintext;
\* a truncated tag keeps the first 4 bytes of the tag.
Alter(blob, alteration) ==
  CASE alteration = "none" -> blob
    [] alteration = "ciphertext" ->
         [blob EXCEPT !.encrypted.plaintext =
            JSONStringify(<<[key |-> "A", value |-> "tampered"]>>)]
    [] alteration = "tag" -> [blob EXCEPT !.tag.aad = "forged"]
    [] alteration = "tagTruncated" -> [blob EXCEPT !.tag.length = 4]
    [] alteration = "algorithm" -> [blob EXCEPT !.algorithm = "aes-256-cbc"]
    [] alteration = "salt" -> [blob EXCEPT !.salt = <<"salt", 0>>]
    [] alteration = "iv" -> [blob EXCEPT !.iv = <<"iv", 0>>]

InitCrypto ==
  /\ DocNew
  /\ EngineIdle
  /\ CodecIdle
  /\ ApiIdle
  /\ CloudIdle
  /\ CommandsIdle
  /\ storedApiKey \in ApiKeys
  /\ drawn = 0
  /\ cryptoData \in Snapshots
  /\ blobs = <<>>
  /\ cryptoResult = NoCall

\* encrypt with a constant iv instead of crypto.randomBytes(this.ivLength)
Encrypt_ConstantIv ==
  LET salt == <<"salt", drawn + 1>>
      iv == <<"iv", 0>>
      result == encrypt(cryptoData, storedApiKey, salt, iv)
  IN /\ Len(blobs) < MaxEncrypts
     /\ drawn' = IF result.ok THEN drawn + 2 ELSE drawn
     /\ blobs' = IF result.ok THEN Append(blobs, result.blob) ELSE blobs
     /\ cryptoResult' = [op |-> "encrypt", index |-> Len(blobs'), alteration |-> "none",
                         apiKey |-> storedApiKey, ok |-> result.ok, data |-> <<>>]
     /\ UNCHANGED <<storedApiKey, cryptoData>>
     /\ UNCHANGED exceptCrypto

\* a call of encrypt(cryptoData): each crypto.randomBytes call returns a
\* value not returned before (512-bit salt, 128-bit iv)
Encrypt ==
  LET salt == <<"salt", drawn + 1>>
      iv == <<"iv", drawn + 2>>
      result == encrypt(cryptoData, storedApiKey, salt, iv)
  IN /\ Len(blobs) < MaxEncrypts
     /\ drawn' = IF result.ok THEN drawn + 2 ELSE drawn
     /\ blobs' = IF result.ok THEN Append(blobs, result.blob) ELSE blobs
     /\ cryptoResult' = [op |-> "encrypt", index |-> Len(blobs'), alteration |-> "none",
                         apiKey |-> storedApiKey, ok |-> result.ok, data |-> <<>>]
     /\ UNCHANGED <<storedApiKey, cryptoData>>
     /\ UNCHANGED exceptCrypto

\* a call of decrypt on the i-th blob as stored or with one field altered
Decrypt(i, alteration) ==
  LET result == decrypt(Alter(blobs[i], alteration), storedApiKey)
  IN /\ cryptoResult' = [op |-> "decrypt", index |-> i, alteration |-> alteration,
                         apiKey |-> storedApiKey, ok |-> result.ok, data |-> result.data]
     /\ UNCHANGED <<storedApiKey, drawn, cryptoData, blobs>>
     /\ UNCHANGED exceptCrypto

\* authManager.setApiKey / logout: the stored API key is replaced or removed
SetApiKey(apiKey) ==
  /\ apiKey # storedApiKey
  /\ storedApiKey' = apiKey
  /\ UNCHANGED <<drawn, cryptoData, blobs, cryptoResult>>
  /\ UNCHANGED exceptCrypto

NextCrypto ==
  \/ Encrypt
  \/ \E i \in DOMAIN blobs, alteration \in Alterations : Decrypt(i, alteration)
  \/ \E apiKey \in ApiKeys \cup {NULL} : SetApiKey(apiKey)

SpecCrypto == InitCrypto /\ [][NextCrypto]_vars

(* ========================= claims: CryptoManager ======================= *)
\* the API key that was stored when the blob was produced
EncryptionApiKey(blob) == blob.encrypted.key[2]

\* C11: with the stored secret unchanged, decrypt(encrypt(s)) returns a
\* snapshot equal to s; two encryptions of the same snapshot give blobs that
\* differ in iv and in ciphertext, and both decrypt back to s.
C11_DecryptInvertsEncrypt ==
  /\ (/\ cryptoResult.op = "decrypt"
      /\ cryptoResult.alteration = "none"
      /\ cryptoResult.apiKey = EncryptionApiKey(blobs[cryptoResult.index])) =>
       (cryptoResult.ok /\ cryptoResult.data = cryptoData)
  /\ \A i, j \in DOMAIN blobs :
       i # j => (blobs[i].iv # blobs[j].iv /\ blobs[i].encrypted # blobs[j].encrypted)

C11_Witness ==
  /\ Len(blobs) = 2
  /\ EncryptionApiKey(blobs[1]) = EncryptionApiKey(blobs[2])
  /\ cryptoResult.op = "decrypt"
  /\ cryptoResult.index = 2
  /\ cryptoResult.alteration = "none"
  /\ cryptoResult.ok
  /\ Len(cryptoData) = 3
  /\ cryptoResult.data = cryptoData

\* C12: decrypt of a blob whose ciphertext, auth tag or algorithm id was
\* altered, or under a secret other than the one used to encrypt, fails and
\* returns no snapshot.
C12_DecryptRejectsAlteredBlob ==
  (/\ cryptoResult.op = "decrypt"
   /\ \/ cryptoResult.alteration \in {"ciphertext", "tag", "tagTruncated", "algorithm"}
      \/ cryptoResult.apiKey # EncryptionApiKey(blobs[cryptoResult.index])) =>
    (~cryptoResult.ok /\ cryptoResult.data = <<>>)

(* ====================== EnvParser: .env text codec ===================== *)
\* Strings are sequences of one-character strings.
CodecChars == {"a", " ", "\"", "'", "#", "\\", "\n", "\t", "="}
CodecKeys == {<<"A">>, <<"B">>}
\* the characters String.prototype.trim removes
WhiteSpace == {" ", "\t", "\n"}
\* the characters that make escapeValue quote a value
QuotedChars == {" ", "\"", "'", "#", "$", "\\"}

CodecValues == UNION {[1..n -> CodecChars] : n \in 0..MaxValueLen}

\* the snapshots of one or several variables with distinct keys
CodecSnapshots ==
  {env \in UNION {[1..n -> [key : CodecKeys, value : CodecValues]] : n \in 0..MaxEntries} :
     \A i, j \in DOMAIN env : i # j => env[i].key # env[j].key}

RECURSIVE TrimStart(_)
TrimStart(str) ==
  IF str # <<>> /\ Head(str) \in WhiteSpace THEN TrimStart(Tail(str)) ELSE str

RECURSIVE TrimEnd(_)
TrimEnd(str) ==
  IF str # <<>> /\ str[Len(str)] \in WhiteSpace
    THEN TrimEnd(SubSeq(str, 1, Len(str) - 1))
    ELSE str

\* String.prototype.trim
Trim(str) == TrimEnd(TrimStart(str))

StartsWith(str, char) == str # <<>> /\ Head(str) = char
EndsWith(str, char) == str # <<>> /\ str[Len(str)] = char
Includes(str, char) == \E i \in DOMAIN str : str[i] = char

\* String.prototype.indexOf, counted from 1 (0: not found)
IndexOf(str, char) ==
  IF Includes(str, char)
    THEN CHOOSE i \in DOMAIN str :
           str[i] = char /\ \A j \in 1..(i - 1) : str[j] # char
    ELSE 0

\* value.slice(0, -1)
DropLast(str) == SubSeq(str, 1, Len(str) - 1)
\* value.slice(1, -1)
SliceInner(str) == SubSeq(str, 2, Len(str) - 1)

\* content.split('\n')
RECURSIVE SplitLines(_)
SplitLines(content) ==
  LET at == IndexOf(content, "\n")
  IN IF at = 0 THEN <<content>>
     ELSE <<SubSeq(content, 1, at - 1)>>
            \o SplitLines(SubSeq(content, at + 1, Len(content)))

\* lines.join('\n')
RECURSIVE JoinLines(_)
JoinLines(lines) ==
  IF lines = <<>> THEN <<>>
  ELSE IF Len(lines) = 1 THEN lines[1]
  ELSE lines[1] \o <<"\n">> \o JoinLines(Tail(lines))

\* envObject[key] = value: a new key goes last, a known key keeps its place
SetProperty(env, key, value) ==
  IF \E i \in DOMAIN env : env[i].key = key
    THEN [i \in DOMAIN env |->
            IF env[i].key = key THEN [key |-> key, value |-> value] ELSE env[i]]
    ELSE Append(env, [key |-> key, value |-> value])

\* the quoted-value branch of parseEnvContent
StripQuotes(value) ==
  IF \/ StartsWith(value, "\"") /\ EndsWith(value, "\"")
     \/ StartsWith(value, "'") /\ EndsWith(value, "'")
    THEN SliceInner(value)
    ELSE value

\* the while loop of the multiline branch: appends the following lines up
\* to the first that does not end in a backslash; j is the index it stops at
RECURSIVE ReadContinuation(_, _, _)
ReadContinuation(lines, j, value) ==
  IF j > Len(lines) THEN [value |-> value, j |-> j]
  ELSE LET nextLine == Trim(lines[j])
       IN IF EndsWith(nextLine, "\\")
            THEN ReadContinuation(lines, j + 1, value \o DropLast(nextLine))
            ELSE [value |-> value \o nextLine, j |-> j]

\* the for loop of parseEnvContent from line i on
RECURSIVE ParseLines(_, _, _)
ParseLines(lines, i, envObject) ==
  IF i > Len(lines) THEN envObject
  ELSE
    LET trimmedLine == Trim(lines[i])
        equalIndex == IndexOf(trimmedLine, "=")
    IN IF trimmedLine = <<>> \/ StartsWith(trimmedLine, "#")
         THEN ParseLines(lines, i + 1, envObject)
       ELSE IF equalIndex > 1
         THEN LET key == Trim(SubSeq(trimmedLine, 1, equalIndex - 1))
                  value == StripQuotes(Trim(SubSeq(trimmedLine, equalIndex + 1,
                                                   Len(trimmedLine))))
              IN IF EndsWith(value, "\\")
                   THEN LET more == ReadContinuation(lines, i + 1, DropLast(value))
                        IN ParseLines(lines, more.j + 1,
                                      SetProperty(envObject, key, more.value))
                   ELSE ParseLines(lines, i + 1, SetProperty(envObject, key, value))
       ELSE ParseLines(lines, i + 1, envObject)

parseEnvContent(content) == ParseLines(SplitLines(content), 1, <<>>)

\* value.replace(/"/g, '\\"')
RECURSIVE EscapeQuotes(_)
EscapeQuotes(value) ==
  IF value = <<>> THEN <<>>
  ELSE (IF Head(value) = "\"" THEN <<"\\", "\"">> ELSE <<Head(value)>>)
         \o EscapeQuotes(Tail(value))

escapeValue(value) ==
  IF \E char \in QuotedChars : Includes(value, char)
    THEN <<"\"">> \o EscapeQuotes(value) \o <<"\"">>
    ELSE value

stringifyEnvContent(envObject) ==
  JoinLines([i \in DOMAIN envObject |->
               envObject[i].key \o <<"=">> \o escapeValue(envObject[i].value)])
    \o <<"\n">>

InitCodec ==
  /\ DocNew
  /\ EngineIdle
  /\ CryptoIdle
  /\ ApiIdle
  /\ CloudIdle
  /\ CommandsIdle
  /\ codecEnv \in CodecSnapshots
  /\ codecText = <<>>
  /\ codecParsed = <<>>
  /\ codecAgain = <<>>
  /\ codecPc = "snapshot"

\* envParser.stringifyEnvContent(codecEnv)
StringifyEnv ==
  /\ codecPc = "snapshot"
  /\ codecText' = stringifyEnvContent(codecEnv)
  /\ codecPc' = "written"
  /\ UNCHANGED <<codecEnv, codecParsed, codecAgain>>
  /\ UNCHANGED exceptCodec

\* envParser.parseEnvContent(codecText)
ParseText ==
  /\ codecPc = "written"
  /\ codecParsed' = parseEnvContent(codecText)
  /\ codecPc' = "parsed"
  /\ UNCHANGED <<codecEnv, codecText, codecAgain>>
  /\ UNCHANGED exceptCodec

\* envParser.stringifyEnvContent(codecParsed)
StringifyParsed ==
  /\ codecPc = "parsed"
  /\ codecAgain' = stringifyEnvContent(codecParsed)
  /\ codecPc' = "rewritten"
  /\ UNCHANGED <<codecEnv, codecText, codecParsed>>
  /\ UNCHANGED exceptCodec

NextCodec ==
  \/ StringifyEnv
  \/ ParseText
  \/ StringifyParsed

SpecCodec == InitCodec /\ [][NextCodec]_vars

(* ========================== claims: EnvParser ========================== *)
\* the characters the format reserves: space, ", ', #, $ and backslash
ReservedChars == {" ", "\"", "'", "#", "$", "\\"}

ReservedFree(env) ==
  \A i \in DOMAIN env : \A char \in ReservedChars : ~Includes(env[i].value, char)

\* C13: for a snapshot whose keys are identifiers and whose values hold none
\* of the reserved characters, parseEnvContent(stringifyEnvContent(s)) is s:
\* the same keys with the same values in the same order.
C13_ParseInvertsStringify ==
  (codecPc \in {"parsed", "rewritten"} /\ ReservedFree(codecEnv)) =>
    codecParsed = codecEnv

\* C14: for every snapshot s, stringifying the parse of stringify(s) gives
\* the very text stringify(s) gave.
C14_StringifyIsCanonical ==
  codecPc = "rewritten" => codecAgain = codecText

(* ========================= ApiClient.request =========================== *)
\* this.retryAttempts
RetryAttempts == 3
\* this.retryDelay, in milliseconds
RetryDelay == 1000
\* the statuses request does not retry when the error carries a response
NoRetryStatuses == {401, 403, 404, 409}

Methods == {"GET", "POST", "PUT", "DELETE"}
\* the error codes and HTTP statuses handleApiError tells apart; 503 stands
\* for the statuses of its default branch
NetworkCodes == {"ECONNREFUSED", "ENOTFOUND", "ETIMEDOUT"}
ErrorStatuses == {401, 403, 404, 409, 429, 500, 503}
\* what one client.request can meet: a 2xx response, a network error with a
\* code and no response, or a response with an error status
OkOutcome == [code |-> "none", status |-> 200]
Outcomes ==
  {OkOutcome}
    \cup {[code |-> code, status |-> 0] : code \in NetworkCodes}
    \cup {[code |-> "ERR_BAD_RESPONSE", status |-> status] : status \in ErrorStatuses}

\* the response interceptor: handleApiError throws a new Error built from a
\* message only (one message per code or status), so the error that request
\* catches has no response property
handleApiError(outcome) ==
  [message |-> IF outcome.code \in NetworkCodes THEN outcome.code ELSE "status",
   hasResponse |-> FALSE,
   status |-> outcome.status]

\* the first test of the catch block of request
ThrowsAtOnce(error) ==
  error.hasResponse /\ error.status \in NoRetryStatuses

InitApi ==
  /\ DocNew
  /\ EngineIdle
  /\ CryptoIdle
  /\ CodecIdle
  /\ ApiIdle
  /\ CloudIdle
  /\ CommandsIdle

\* request(config) is called: the loop starts with attempt = 1
Request(method) ==
  /\ apiPc = "idle"
  /\ apiMethod' = method
  /\ apiAttempt' = 1
  /\ apiPc' = "sending"
  /\ UNCHANGED <<apiSent, apiDelays, apiResult>>
  /\ UNCHANGED exceptApi

\* one pass of the loop body up to its next await: client.request(config)
\* is sent and meets `outcome`
Send(outcome) ==
  LET error == handleApiError(outcome)
  IN /\ apiPc = "sending"
     /\ apiSent' = Append(apiSent, outcome)
     /\ IF outcome = OkOutcome
          THEN /\ apiResult' = [returned |-> TRUE, thrown |-> FALSE, error |-> NoError]
               /\ apiPc' = "done"
          ELSE IF ThrowsAtOnce(error) \/ apiAttempt >= RetryAttempts
            THEN /\ apiResult' = [returned |-> FALSE, thrown |-> TRUE, error |-> error]
                 /\ apiPc' = "done"
            ELSE /\ apiResult' = apiResult
                 /\ apiPc' = "delaying"
     /\ UNCHANGED <<apiMethod, apiAttempt, apiDelays>>
     /\ UNCHANGED exceptApi

\* request waiting retryDelay before every retry, whatever the attempt
Delay_ConstantDelay ==
  /\ apiPc = "delaying"
  /\ apiDelays' = Append(apiDelays, RetryDelay)
  /\ apiAttempt' = apiAttempt + 1
  /\ apiPc' = "sending"
  /\ UNCHANGED <<apiMethod, apiSent, apiResult>>
  /\ UNCHANGED exceptApi

\* await this.delay(this.retryDelay * attempt), then the loop's attempt++
Delay ==
  /\ apiPc = "delaying"
  /\ apiDelays' = Append(apiDelays, RetryDelay * apiAttempt)
  /\ apiAttempt' = apiAttempt + 1
  /\ apiPc' = "sending"
  /\ UNCHANGED <<apiMethod, apiSent, apiResult>>
  /\ UNCHANGED exceptApi

NextApi ==
  \/ \E method \in Methods : Request(method)
  \/ \E outcome \in Outcomes : Send(outcome)
  \/ Delay

SpecApi == InitApi /\ [][NextApi]_vars

(* ========================== claims: ApiClient ========================== *)
MutatingMethods == {"POST", "PUT", "DELETE"}

\* C16: within one call of ApiClient.request a mutating request (POST, PUT,
\* DELETE) is sent at most once; only GET requests are sent again.
C16_MutatingRequestSentOnce ==
  apiMethod \in MutatingMethods => Len(apiSent) <= 1

\* C24: a call of request makes at most 3 attempts: it returns at the first
\* successful response, waits 1000 ms times the attempt number between two
\* consecutive attempts (1000, then 2000), and after the third failed
\* attempt it throws the last error with no further wait or send.
C24_AtMostThreeAttempts ==
  /\ Len(apiSent) <= RetryAttempts
  /\ \A i \in DOMAIN apiSent : i < Len(apiSent) => apiSent[i] # OkOutcome
  /\ apiDelays = [i \in 1..Len(apiDelays) |-> RetryDelay * i]
  /\ \A i \in DOMAIN apiDelays : i > 1 => apiDelays[i] > apiDelays[i - 1]
  /\ Len(apiDelays) = IF apiPc \in {"delaying", "done"} THEN Len(apiSent) - 1
                      ELSE Len(apiSent)
  /\ (apiSent # <<>> /\ apiSent[Len(apiSent)] = OkOutcome) =>
       (apiPc = "done" /\ apiResult.returned /\ ~apiResult.thrown)
  /\ (Len(apiSent) = RetryAttempts /\ apiSent[RetryAttempts] # OkOutcome) =>
       /\ apiPc = "done"
       /\ apiResult.thrown /\ ~apiResult.returned
       /\ apiResult.error = handleApiError(apiSent[RetryAttempts])

C24_Witness ==
  /\ apiPc = "done"
  /\ apiResult.thrown
  /\ Len(apiSent) = RetryAttempts
  /\ apiDelays = <<1000, 2000>>
  /\ apiResult.error = handleApiError(apiSent[3])
  /\ apiSent[3] # apiSent[2]

\* C25: when the server answers the first attempt with status 401, 403, 404
\* or 409, request makes that one attempt only and throws at once, with no
\* retry and no delay.
C25_ClientErrorsNotRetried ==
  (apiSent # <<>> /\ apiSent[1].status \in NoRetryStatuses) =>
    /\ Len(apiSent) = 1
    /\ apiDelays = <<>>
    /\ apiPc = "done"
    /\ apiResult.thrown

(* ================== storage providers: store / retrieve ================ *)
\* the payloads handed to store: every snapshot of at most one variable
CloudPayloads == {env \in Snapshots : Len(env) <= 1}

\* --- the secret services, as their APIs specify them ---
\* AWS updateSecret: ResourceNotFoundException unless the secret exists
updateSecret(secrets, name, value) ==
  IF secrets[name].exists
    THEN [ok |-> TRUE, code |-> "none",
          secrets |-> [secrets EXCEPT ![name].values = Append(@, value)]]
    ELSE [ok |-> FALSE, code |-> "ResourceNotFoundException", secrets |-> secrets]

\* AWS createSecret with a SecretString, Google createSecret without a value:
\* fails when the secret exists already
createSecret(secrets, name, values) ==
  IF secrets[name].exists
    THEN [ok |-> FALSE, code |-> "ALREADY_EXISTS", secrets |-> secrets]
    ELSE [ok |-> TRUE, code |-> "none",
          secrets |-> [secrets EXCEPT ![name] = [exists |-> TRUE, values |-> values]]]

\* Azure setSecret: creates the secret or adds a version to it
setSecret(secrets, name, value) ==
  [ok |-> TRUE, code |-> "none",
   secrets |-> [secrets EXCEPT ![name] =
                  [exists |-> TRUE, values |-> Append(@.values, value)]]]

\* Google addSecretVersion on an existing secret
addSecretVersion(secrets, name, value) ==
  [ok |-> TRUE, code |-> "none",
   secrets |-> [secrets EXCEPT ![name].values = Append(@, value)]]

\* getSecretValue / getSecret / accessSecretVersion(versions/latest)
getLatest(secrets, name) ==
  IF secrets[name].exists /\ secrets[name].values # <<>>
    THEN [ok |-> TRUE, value |-> secrets[name].values[Len(secrets[name].values)]]
    ELSE [ok |-> FALSE, value |-> <<>>]

\* --- the providers ---
AWSStore(secrets, environment, payload) ==
  LET name == SecretName("aws", environment)
      value == JSONStringify(payload)
      updated == updateSecret(secrets, name, value)
  IN IF updated.ok THEN updated
     ELSE IF updated.code = "ResourceNotFoundException"
       THEN createSecret(secrets, name, <<value>>)
       ELSE updated

AzureStore(secrets, environment, payload) ==
  setSecret(secrets, SecretName("azure", environment), JSONStringify(payload))

GoogleStore(secrets, environment, payload) ==
  LET name == SecretName("google", environment)
      created == createSecret(secrets, name, <<>>)
  IN IF created.ok
       THEN addSecretVersion(created.secrets, name, JSONStringify(payload))
       ELSE created

ProviderStore(provider, secrets, environment, payload) ==
  CASE provider = "aws" -> AWSStore(secrets, environment, payload)
    [] provider = "azure" -> AzureStore(secrets, environment, payload)
    [] provider = "google" -> GoogleStore(secrets, environment, payload)

InitCloud ==
  /\ DocNew
  /\ EngineIdle
  /\ CryptoIdle
  /\ CodecIdle
  /\ ApiIdle
  /\ CommandsIdle
  /\ cloudProvider \in CloudProviders
  /\ cloudSecrets = [name \in SecretNames |-> NoSecret]
  /\ cloudStored = [environment \in Environments |-> <<>>]
  /\ cloudResult = NoCloudCall

\* provider.store(environment, payload)
Store(environment, payload) ==
  LET stored == ProviderStore(cloudProvider, cloudSecrets, environment, payload)
  IN /\ Len(cloudStored[environment]) < MaxStores
     /\ cloudSecrets' = stored.secrets
     /\ cloudStored' = [cloudStored EXCEPT ![environment] = Append(@, payload)]
     /\ cloudResult' = [op |-> "store", environment |-> environment,
                        ok |-> stored.ok, variables |-> <<>>]
     /\ UNCHANGED cloudProvider
     /\ UNCHANGED exceptCloud

\* provider.retrieve(environment)
Retrieve(environment) ==
  LET latest == getLatest(cloudSecrets, SecretName(cloudProvider, environment))
  IN /\ cloudResult' =
          IF latest.ok /\ JSONParse(latest.value) # NULL
            THEN [op |-> "retrieve", environment |-> environment,
                  ok |-> TRUE, variables |-> JSONParse(latest.value)]
            ELSE [op |-> "retrieve", environment |-> environment,
                  ok |-> FALSE, variables |-> <<>>]
     /\ UNCHANGED <<cloudProvider, cloudSecrets, cloudStored>>
     /\ UNCHANGED exceptCloud

NextCloud ==
  \/ \E environment \in Environments, payload \in CloudPayloads :
       Store(environment, payload)
  \/ \E environment \in Environments : Retrieve(environment)

SpecCloud == InitCloud /\ [][NextCloud]_vars

(* ====================== claims: storage providers ====================== *)
\* C20: store(id, payload) of the AWS, Azure and Google providers is an
\* upsert: every store in a sequence of stores on one id succeeds, and a
\* retrieve after them returns the payload of the last store.
C20_StoreIsUpsert ==
  /\ cloudResult.op = "store" => cloudResult.ok
  /\ (cloudResult.op = "retrieve" /\ cloudStored[cloudResult.environment] # <<>>) =>
       /\ cloudResult.ok
       /\ cloudResult.variables =
            cloudStored[cloudResult.environment][Len(cloudStored[cloudResult.environment])]

(* ==================== commands: push, pull, sync ======================= *)
\* Variable names and values are atoms; Spell gives the characters of an
\* atom, which is what the text of a .env file and the name pattern see.
SyncKeys == {"A", "1B"}
LocalValues == {"1", "2"}
RemoteValues == {"1", "2", NULL}
\* the string 'null', which String(null) produces
StringNull == "String(null)"
\* createdEnv.id
RemoteId == "env-1"
\* the environment named on the command line
ProjectEnvironment == "dev"
Resolutions == {"local", "remote", "merge", "cancel"}

Letters ==
  {"A", "B", "C", "D", "E", "F", "G", "H", "I", "J", "K", "L", "M", "N", "O",
   "P", "Q", "R", "S", "T", "U", "V", "W", "X", "Y", "Z",
   "a", "b", "c", "d", "e", "f", "g", "h", "i", "j", "k", "l", "m", "n", "o",
   "p", "q", "r", "s", "t", "u", "v", "w", "x", "y", "z"}
Digits == {"0", "1", "2", "3", "4", "5", "6", "7", "8", "9"}

\* the property names of an encrypted blob and the hex strings they hold
BlobFields == {"encrypted", "iv", "tag", "salt", "algorithm"}
HexStrings == {"hexEncrypted", "hexIv", "hexTag", "hexSalt"}
\* every atom that is a string (null is not)
TextAtoms ==
  SyncKeys \cup LocalValues \cup {StringNull} \cup BlobFields \cup HexStrings
    \cup {Algorithm}

\* the characters of an atom; for null, those of String(null)
Spell(atom) ==
  CASE atom = "A" -> <<"A">>
    [] atom = "1B" -> <<"1", "B">>
    [] atom = "1" -> <<"1">>
    [] atom = "2" -> <<"2">>
    [] atom \in {NULL, StringNull} -> <<"n", "u", "l", "l">>
    [] atom = "encrypted" -> <<"e", "n", "c", "r", "y", "p", "t", "e", "d">>
    [] atom = "iv" -> <<"i", "v">>
    [] atom = "tag" -> <<"t", "a", "g">>
    [] atom = "salt" -> <<"s", "a", "l", "t">>
    [] atom = "algorithm" -> <<"a", "l", "g", "o", "r", "i", "t", "h", "m">>
    [] atom = "hexEncrypted" -> <<"0", "a">>
    [] atom = "hexIv" -> <<"0", "b">>
    [] atom = "hexTag" -> <<"0", "c">>
    [] atom = "hexSalt" -> <<"0", "d">>
    [] atom = Algorithm -> <<"a", "e", "s", "-", "2", "5", "6", "-", "g", "c", "m">>

\* the string with the given characters
Unspell(chars) == CHOOSE atom \in TextAtoms : Spell(atom) = chars

SpellEnv(env) ==
  [i \in DOMAIN env |-> [key |-> Spell(env[i].key), value |-> Spell(env[i].value)]]
UnspellEnv(env) ==
  [i \in DOMAIN env |-> [key |-> Unspell(env[i].key), value |-> Unspell(env[i].value)]]

\* the objects with distinct property names over the given names and values
EnvObjects(names, values) ==
  {env \in UNION {[1..n -> [key : names, value : values]] : n \in 0..Cardinality(names)} :
     \A i, j \in DOMAIN env : i # j => env[i].key # env[j].key}
LocalSnapshots == EnvObjects(SyncKeys, LocalValues)
RemoteSnapshots == EnvObjects(SyncKeys, RemoteValues)

\* --- EnvParser: files and validation ---
\* readEnvFile on an existing file
readEnvFile(file) == UnspellEnv(parseEnvContent(file.content))
\* the file after writeEnvFile(filePath, envObject)
writeEnvFile(envObject) ==
  [exists |-> TRUE, content |-> stringifyEnvContent(SpellEnv(envObject))]
\* the backups after createBackup(filePath): none is made of a missing file
createBackup(file, copies) ==
  IF file.exists THEN Append(copies, file.content) ELSE copies

\* /^[A-Z_][A-Z0-9_]*$/i.test(name), after the test for an empty name
validateVariableName(name) ==
  LET chars == Spell(name)
  IN /\ chars # <<>>
     /\ Head(chars) \in Letters \cup {"_"}
     /\ \A i \in DOMAIN chars : chars[i] \in Letters \cup Digits \cup {"_"}

validateVariableValue(value) == value # NULL

\* the errors validateEnvironment collects, as the key and what is wrong
RECURSIVE ValidationErrors(_)
ValidationErrors(envObject) ==
  IF envObject = <<>> THEN <<>>
  ELSE LET entry == Head(envObject)
       IN (IF validateVariableName(entry.key) THEN <<>>
           ELSE <<[key |-> entry.key, invalid |-> "name"]>>)
          \o (IF validateVariableValue(entry.value) THEN <<>>
              ELSE <<[key |-> entry.key, invalid |-> "value"]>>)
          \o ValidationErrors(Tail(envObject))

validateEnvironment(envObject) ==
  [valid |-> ValidationErrors(envObject) = <<>>, errors |-> ValidationErrors(envObject)]

\* --- CryptoManager: file content ---
\* value.replace(/^["']|["']$/g, '')
CleanValue(value) ==
  LET rest == IF StartsWith(value, "\"") \/ StartsWith(value, "'")
                THEN Tail(value) ELSE value
  IN IF EndsWith(rest, "\"") \/ EndsWith(rest, "'") THEN DropLast(rest) ELSE rest

\* the for loop of CryptoManager.parseEnvContent
RECURSIVE CryptoParseLines(_, _)
CryptoParseLines(lines, envObject) ==
  IF lines = <<>> THEN envObject
  ELSE
    LET trimmedLine == Trim(Head(lines))
        equalIndex == IndexOf(trimmedLine, "=")
    IN IF trimmedLine = <<>> \/ StartsWith(trimmedLine, "#") \/ equalIndex <= 1
         THEN CryptoParseLines(Tail(lines), envObject)
         ELSE CryptoParseLines(Tail(lines),
                SetProperty(envObject,
                            Trim(SubSeq(trimmedLine, 1, equalIndex - 1)),
                            CleanValue(Trim(SubSeq(trimmedLine, equalIndex + 1,
                                                   Len(trimmedLine))))))

\* CryptoManager.parseEnvContent
cryptoParseEnvContent(content) == CryptoParseLines(SplitLines(content), <<>>)

\* CryptoManager.stringifyEnvContent: every value quoted
cryptoStringifyEnvContent(envObject) ==
  JoinLines([i \in DOMAIN envObject |->
               envObject[i].key \o <<"=", "\"">> \o EscapeQuotes(envObject[i].value)
                 \o <<"\"">>])
    \o <<"\n">>

\* CryptoManager.encryptFileContent(content)
encryptFileContent(content, apiKey, salt, iv) ==
  encrypt(UnspellEnv(cryptoParseEnvContent(content)), apiKey, salt, iv)

isEncryptionEnabled(config) == config.encryption

\* --- the payload of a remote environment ---
PlainPayload(env) == [form |-> "plain", env |-> env, blob |-> <<>>]
BlobPayload(blob) == [form |-> "blob", env |-> <<>>, blob |-> <<blob>>]

\* CryptoManager.decryptFileContent(encryptedData): decrypt throws on an
\* object that is no blob (its algorithm is undefined)
decryptFileContent(payload, apiKey) ==
  IF payload.form # "blob" THEN [ok |-> FALSE, content |-> <<>>]
  ELSE LET decrypted == decrypt(payload.blob[1], apiKey)
       IN IF decrypted.ok
            THEN [ok |-> TRUE,
                  content |-> cryptoStringifyEnvContent(SpellEnv(decrypted.data))]
            ELSE [ok |-> FALSE, content |-> <<>>]

\* a blob read as an object of variables: its five properties
BlobAsEnv(blob) ==
  <<[key |-> "encrypted", value |-> "hexEncrypted"],
    [key |-> "iv", value |-> "hexIv"],
    [key |-> "tag", value |-> "hexTag"],
    [key |-> "salt", value |-> "hexSalt"],
    [key |-> "algorithm", value |-> blob.algorithm]>>

\* remoteData.variables || {}
RemoteVariables(payload) ==
  IF payload.form = "blob" THEN BlobAsEnv(payload.blob[1]) ELSE payload.env

\* the lines of sync and pull that turn remoteData into remoteEnv
DecodeRemote(remoteData, config, apiKey) ==
  IF remoteData.encrypted /\ isEncryptionEnabled(config)
    THEN LET decrypted == decryptFileContent(remoteData.payload, apiKey)
         IN IF decrypted.ok
              THEN [ok |-> TRUE, env |-> UnspellEnv(parseEnvContent(decrypted.content))]
              ELSE [ok |-> FALSE, env |-> <<>>]
    ELSE [ok |-> TRUE, env |-> RemoteVariables(remoteData.payload)]

hasConflicts(c) == Len(c.added) > 0 \/ Len(c.removed) > 0 \/ Len(c.modified) > 0

NoRemote == [exists |-> FALSE, payload |-> NoPayload, encrypted |-> FALSE]

InitCommands ==
  /\ DocNew
  /\ CodecIdle
  /\ ApiIdle
  /\ CloudIdle
  /\ localEnv = <<>>
  /\ remoteEnv = <<>>
  /\ strategy = "prompt"
  /\ conflicts = NoConflicts
  /\ finalEnv = <<>>
  /\ phase = "idle"
  /\ storedApiKey \in ApiKeys
  /\ drawn = 2
  /\ cryptoData = <<>>
  /\ blobs = <<>>
  /\ cryptoResult = NoCall
  /\ localFile \in {[exists |-> FALSE, content |-> <<>>]}
                     \cup {writeEnvFile(env) : env \in LocalSnapshots}
  /\ backups = <<>>
  /\ remoteStore \in
       {NoRemote}
         \cup {[exists |-> TRUE, payload |-> PlainPayload(env), encrypted |-> FALSE] :
                 env \in RemoteSnapshots}
         \cup {[exists |-> TRUE,
                payload |-> BlobPayload(encrypt(env, "K1", <<"salt", 1>>, <<"iv", 2>>).blob),
                encrypted |-> TRUE] : env \in LocalSnapshots}
  /\ manifest \in
       {[remote_id |-> IF remoteStore.exists THEN RemoteId ELSE NULL,
         encryption |-> enabled, last_push |-> 0, last_pull |-> 0, last_sync |-> 0] :
          enabled \in BOOLEAN}
  /\ cmd = NoCommand
  /\ cmdLog = <<>>
  /\ finished = <<>>

Begin(name, force, pc) ==
  [name |-> name, force |-> force, pc |-> pc, outcome |-> "running",
   existed |-> localFile.exists, fetched |-> FALSE, errors |-> <<>>]
Exit(name, force) ==
  [name |-> name, force |-> force, pc |-> "exit", outcome |-> "failed",
   existed |-> localFile.exists, fetched |-> FALSE, errors |-> <<>>]
Goto(pc) == [cmd EXCEPT !.pc = pc]
Finish(outcome, errors) ==
  [cmd EXCEPT !.pc = "exit", !.outcome = outcome, !.errors = errors]
At(name, pc) == cmd.name = name /\ cmd.pc = pc

\* ------------------------------- sync ---------------------------------
\* sync(environment, options) up to the call of syncEnvironment
StartSync(force, authenticated) ==
  /\ cmd.pc = "idle"
  /\ cmd' = IF authenticated THEN Begin("sync", force, "readLocal")
            ELSE Exit("sync", force)
  /\ UNCHANGED <<localEnv, remoteEnv, strategy, conflicts, finalEnv, storedApiKey,
                 drawn, localFile, backups, remoteStore, manifest, cmdLog>>
  /\ UNCHANGED exceptCommands

\* syncEnvironment: read the local file (a missing file reads as {})
SyncReadLocal ==
  /\ At("sync", "readLocal")
  /\ localEnv' = IF localFile.exists THEN readEnvFile(localFile) ELSE <<>>
  /\ cmdLog' = Append(cmdLog, "readLocal")
  /\ cmd' = Goto("readRemote")
  /\ UNCHANGED <<remoteEnv, strategy, conflicts, finalEnv, storedApiKey, drawn,
                 localFile, backups, remoteStore, manifest>>
  /\ UNCHANGED exceptCommands

\* syncEnvironment: fetch and decode the remote environment; an error of the
\* request or of the decryption is only warned about and leaves remoteEnv {}
SyncReadRemote(reachable) ==
  LET decoded == DecodeRemote(remoteStore, manifest, storedApiKey)
  IN /\ At("sync", "readRemote")
     /\ IF manifest.remote_id = NULL
          THEN remoteEnv' = <<>> /\ cmdLog' = cmdLog
          ELSE /\ remoteEnv' = IF reachable /\ remoteStore.exists /\ decoded.ok
                                 THEN decoded.env ELSE <<>>
               /\ cmdLog' = Append(cmdLog, "readRemote")
     /\ cmd' = [Goto("detect") EXCEPT
                 !.fetched = manifest.remote_id # NULL /\ reachable /\ remoteStore.exists]
     /\ UNCHANGED <<localEnv, strategy, conflicts, finalEnv, storedApiKey, drawn,
                    localFile, backups, remoteStore, manifest>>
     /\ UNCHANGED exceptCommands

\* syncEnvironment resolving whatever detectConflicts returned
SyncDetect_IgnoresResult ==
  /\ At("sync", "detect")
  /\ conflicts' = detectConflicts(localEnv, remoteEnv)
  /\ cmdLog' = Append(cmdLog, "detect")
  /\ cmd' = IF cmd.force THEN Goto("forceWrite") ELSE Goto("prompt")
  /\ UNCHANGED <<localEnv, remoteEnv, strategy, finalEnv, storedApiKey, drawn,
                 localFile, backups, remoteStore, manifest>>
  /\ UNCHANGED exceptCommands

\* syncEnvironment: detectConflicts and the branch on hasConflicts / force
SyncDetect ==
  /\ At("sync", "detect")
  /\ conflicts' = detectConflicts(localEnv, remoteEnv)
  /\ cmdLog' = Append(cmdLog, "detect")
  /\ cmd' = IF hasConflicts(conflicts')
              THEN (IF cmd.force THEN Goto("forceWrite") ELSE Goto("prompt"))
              ELSE Goto("saveConfig")
  /\ UNCHANGED <<localEnv, remoteEnv, strategy, finalEnv, storedApiKey, drawn,
                 localFile, backups, remoteStore, manifest>>
  /\ UNCHANGED exceptCommands

\* syncEnvironment, force mode: the remote values are written to the file
SyncForceWrite ==
  /\ At("sync", "forceWrite")
  /\ localFile' = writeEnvFile(remoteEnv)
  /\ cmdLog' = Append(cmdLog, "writeLocal")
  /\ cmd' = Goto("saveConfig")
  /\ UNCHANGED <<localEnv, remoteEnv, strategy, conflicts, finalEnv, storedApiKey,
                 drawn, backups, remoteStore, manifest>>
  /\ UNCHANGED exceptCommands

\* promptConflictResolution: 'cancel' ends the process with status 0
SyncPrompt(resolution) ==
  /\ At("sync", "prompt")
  /\ strategy' = resolution
  /\ cmd' = IF resolution = "cancel" THEN Finish("cancelled", <<>>) ELSE Goto("merge")
  /\ UNCHANGED <<localEnv, remoteEnv, conflicts, finalEnv, storedApiKey, drawn,
                 localFile, backups, remoteStore, manifest, cmdLog>>
  /\ UNCHANGED exceptCommands

\* resolveConflicts with the remote update placed before the backup
SyncMerge_UpdatesRemoteFirst ==
  LET final == resolveFinalEnv(localEnv, remoteEnv, strategy)
      result == encryptFileContent(stringifyEnvContent(SpellEnv(final)), storedApiKey,
                                   <<"salt", drawn + 1>>, <<"iv", drawn + 2>>)
  IN /\ At("sync", "merge")
     /\ finalEnv' = final
     /\ IF strategy = "local" /\ manifest.remote_id # NULL /\ result.ok
          THEN /\ cmdLog' = cmdLog \o <<"merge", "updateRemote">>
               /\ remoteStore' = [remoteStore EXCEPT !.payload = BlobPayload(result.blob)]
               /\ drawn' = drawn + 2
          ELSE /\ cmdLog' = Append(cmdLog, "merge")
               /\ UNCHANGED <<remoteStore, drawn>>
     /\ cmd' = Goto("backup")
     /\ UNCHANGED <<localEnv, remoteEnv, strategy, conflicts, storedApiKey,
                    localFile, backups, manifest>>
     /\ UNCHANGED exceptCommands

\* resolveConflicts: the switch that computes finalEnv
SyncMerge ==
  /\ At("sync", "merge")
  /\ finalEnv' = resolveFinalEnv(localEnv, remoteEnv, strategy)
  /\ cmdLog' = Append(cmdLog, "merge")
  /\ cmd' = Goto("backup")
  /\ UNCHANGED <<localEnv, remoteEnv, strategy, conflicts, storedApiKey, drawn,
                 localFile, backups, remoteStore, manifest>>
  /\ UNCHANGED exceptCommands

\* resolveConflicts: createBackup(localFilePath)
SyncBackup ==
  /\ At("sync", "backup")
  /\ backups' = createBackup(localFile, backups)
  /\ cmdLog' = IF localFile.exists THEN Append(cmdLog, "backup") ELSE cmdLog
  /\ cmd' = Goto("writeLocal")
  /\ UNCHANGED <<localEnv, remoteEnv, strategy, conflicts, finalEnv, storedApiKey,
                 drawn, localFile, remoteStore, manifest>>
  /\ UNCHANGED exceptCommands

\* resolveConflicts updating the remote under 'merge' as well as 'local'
SyncWriteLocal_UpdatesOnMerge ==
  /\ At("sync", "writeLocal")
  /\ localFile' = writeEnvFile(finalEnv)
  /\ cmdLog' = Append(cmdLog, "writeLocal")
  /\ cmd' = IF strategy \in {"local", "merge"} /\ manifest.remote_id # NULL
              THEN Goto("updateRemote") ELSE Goto("saveConfig")
  /\ UNCHANGED <<localEnv, remoteEnv, strategy, conflicts, finalEnv, storedApiKey,
                 drawn, backups, remoteStore, manifest>>
  /\ UNCHANGED exceptCommands

\* resolveConflicts: writeEnvFile(localFilePath, finalEnv)
SyncWriteLocal ==
  /\ At("sync", "writeLocal")
  /\ localFile' = writeEnvFile(finalEnv)
  /\ cmdLog' = Append(cmdLog, "writeLocal")
  /\ cmd' = IF strategy = "local" /\ manifest.remote_id # NULL
              THEN Goto("updateRemote") ELSE Goto("saveConfig")
  /\ UNCHANGED <<localEnv, remoteEnv, strategy, conflicts, finalEnv, storedApiKey,
                 drawn, backups, remoteStore, manifest>>
  /\ UNCHANGED exceptCommands

\* resolveConflicts: encryptFileContent and updateEnvironment; a failure of
\* either is only warned about
SyncUpdateRemote(accepted) ==
  LET result == encryptFileContent(stringifyEnvContent(SpellEnv(finalEnv)), storedApiKey,
                                   <<"salt", drawn + 1>>, <<"iv", drawn + 2>>)
  IN /\ At("sync", "updateRemote")
     /\ IF result.ok
          THEN /\ drawn' = drawn + 2
               /\ cmdLog' = Append(cmdLog, "updateRemote")
               /\ remoteStore' =
                    IF accepted
                      THEN [remoteStore EXCEPT !.payload = BlobPayload(result.blob)]
                      ELSE remoteStore
          ELSE UNCHANGED <<drawn, cmdLog, remoteStore>>
     /\ cmd' = Goto("saveConfig")
     /\ UNCHANGED <<localEnv, remoteEnv, strategy, conflicts, finalEnv, storedApiKey,
                    localFile, backups, manifest>>
     /\ UNCHANGED exceptCommands

\* syncEnvironment: envConfig.last_sync is set and the config saved
SyncSaveConfig ==
  /\ At("sync", "saveConfig")
  /\ manifest' = [manifest EXCEPT !.last_sync = @ + 1]
  /\ cmdLog' = Append(cmdLog, "saveConfig")
  /\ cmd' = Finish("done", <<>>)
  /\ UNCHANGED <<localEnv, remoteEnv, strategy, conflicts, finalEnv, storedApiKey,
                 drawn, localFile, backups, remoteStore>>
  /\ UNCHANGED exceptCommands

\* ------------------------------- pull ---------------------------------
\* pullFromEnvFly up to the spinner: authentication and remote_id checks
StartPull(authenticated) ==
  /\ cmd.pc = "idle"
  /\ cloudProvider = NULL
  /\ cmd' = IF authenticated /\ manifest.remote_id # NULL
              THEN Begin("pull", FALSE, "backup")
              ELSE Exit("pull", FALSE)
  /\ UNCHANGED <<localEnv, remoteEnv, strategy, conflicts, finalEnv, storedApiKey,
                 drawn, localFile, backups, remoteStore, manifest, cmdLog>>
  /\ UNCHANGED exceptCommands

\* pullFromEnvFly: createBackup(localFilePath)
PullBackup ==
  /\ At("pull", "backup")
  /\ backups' = createBackup(localFile, backups)
  /\ cmdLog' = IF localFile.exists THEN Append(cmdLog, "backup") ELSE cmdLog
  /\ cmd' = Goto("readRemote")
  /\ UNCHANGED <<localEnv, remoteEnv, strategy, conflicts, finalEnv, storedApiKey,
                 drawn, localFile, remoteStore, manifest>>
  /\ UNCHANGED exceptCommands

\* pullFromEnvFly: getEnvironment, decoding and validateEnvironment
PullFetch(reachable) ==
  LET decoded == DecodeRemote(remoteStore, manifest, storedApiKey)
      validation == validateEnvironment(decoded.env)
  IN /\ At("pull", "readRemote")
     /\ cmdLog' = Append(cmdLog, "readRemote")
     /\ IF reachable /\ remoteStore.exists /\ decoded.ok
          THEN /\ remoteEnv' = decoded.env
               /\ cmd' = [(IF validation.valid THEN Goto("writeLocal")
                           ELSE Finish("failed", validation.errors))
                         EXCEPT !.fetched = TRUE]
          ELSE /\ remoteEnv' = remoteEnv
               /\ cmd' = [Finish("failed", <<>>) EXCEPT
                           !.fetched = reachable /\ remoteStore.exists]
     /\ UNCHANGED <<localEnv, strategy, conflicts, finalEnv, storedApiKey, drawn,
                    localFile, backups, remoteStore, manifest>>
     /\ UNCHANGED exceptCommands

\* pullFromEnvFly: writeEnvFile(localFilePath, remoteEnv)
PullWriteLocal ==
  /\ At("pull", "writeLocal")
  /\ localFile' = writeEnvFile(remoteEnv)
  /\ cmdLog' = Append(cmdLog, "writeLocal")
  /\ cmd' = Goto("saveConfig")
  /\ UNCHANGED <<localEnv, remoteEnv, strategy, conflicts, finalEnv, storedApiKey,
                 drawn, backups, remoteStore, manifest>>
  /\ UNCHANGED exceptCommands

\* pullFromEnvFly: envConfig.last_pull is set and the config saved
PullSaveConfig ==
  /\ At("pull", "saveConfig")
  /\ manifest' = [manifest EXCEPT !.last_pull = @ + 1]
  /\ cmdLog' = Append(cmdLog, "saveConfig")
  /\ cmd' = Finish("done", <<>>)
  /\ UNCHANGED <<localEnv, remoteEnv, strategy, conflicts, finalEnv, storedApiKey,
                 drawn, localFile, backups, remoteStore>>
  /\ UNCHANGED exceptCommands

\* ------------------------------- push ---------------------------------
\* pushToEnvFly up to the spinner: authentication check
StartPush(authenticated) ==
  /\ cmd.pc = "idle"
  /\ cloudProvider = NULL
  /\ cmd' = IF authenticated THEN Begin("push", FALSE, "readLocal")
            ELSE Exit("push", FALSE)
  /\ UNCHANGED <<localEnv, remoteEnv, strategy, conflicts, finalEnv, storedApiKey,
                 drawn, localFile, backups, remoteStore, manifest, cmdLog>>
  /\ UNCHANGED exceptCommands

\* pushToEnvFly: readEnvFile (a missing file is an error) and
\* validateEnvironment
PushReadLocal ==
  LET read == readEnvFile(localFile)
      validation == validateEnvironment(read)
  IN /\ At("push", "readLocal")
     /\ cmdLog' = Append(cmdLog, "readLocal")
     /\ IF localFile.exists
          THEN /\ localEnv' = read
               /\ cmd' = IF validation.valid
                           THEN Goto(IF cloudProvider = NULL THEN "upload" ELSE "store")
                           ELSE Finish("failed", validation.errors)
          ELSE /\ localEnv' = localEnv
               /\ cmd' = Finish("failed", <<>>)
     /\ UNCHANGED <<remoteEnv, strategy, conflicts, finalEnv, storedApiKey, drawn,
                    localFile, backups, remoteStore, manifest>>
     /\ UNCHANGED exceptCommands

\* pushToEnvFly: encryption when enabled, then updateEnvironment or
\* createEnvironment followed by the save of the new remote_id
PushUpload(accepted) ==
  LET enabled == isEncryptionEnabled(manifest)
      result == encryptFileContent(stringifyEnvContent(SpellEnv(localEnv)), storedApiKey,
                                   <<"salt", drawn + 1>>, <<"iv", drawn + 2>>)
      payload == IF enabled THEN BlobPayload(result.blob) ELSE PlainPayload(localEnv)
  IN /\ At("push", "upload")
     /\ IF enabled /\ ~result.ok
          THEN /\ cmd' = Finish("failed", <<>>)
               /\ UNCHANGED <<drawn, cmdLog, remoteStore, manifest>>
          ELSE /\ drawn' = IF enabled THEN drawn + 2 ELSE drawn
               /\ IF manifest.remote_id # NULL
                    THEN /\ cmdLog' = Append(cmdLog, "updateRemote")
                         /\ remoteStore' = IF accepted
                                             THEN [remoteStore EXCEPT !.payload = payload]
                                             ELSE remoteStore
                         /\ manifest' = manifest
                    ELSE /\ cmdLog' = IF accepted
                                        THEN cmdLog \o <<"createRemote", "saveConfig">>
                                        ELSE Append(cmdLog, "createRemote")
                         /\ remoteStore' = IF accepted
                                             THEN [exists |-> TRUE, payload |-> payload,
                                                   encrypted |-> enabled]
                                             ELSE remoteStore
                         /\ manifest' = IF accepted
                                          THEN [manifest EXCEPT !.remote_id = RemoteId]
                                          ELSE manifest
               /\ cmd' = IF accepted THEN Goto("saveConfig") ELSE Finish("failed", <<>>)
     /\ UNCHANGED <<localEnv, remoteEnv, strategy, conflicts, finalEnv, storedApiKey,
                    localFile, backups>>
     /\ UNCHANGED exceptCommands

\* pushToEnvFly: envConfig.last_push is set and the config saved
PushSaveConfig ==
  /\ At("push", "saveConfig")
  /\ manifest' = [manifest EXCEPT !.last_push = @ + 1]
  /\ cmdLog' = Append(cmdLog, "saveConfig")
  /\ cmd' = Finish("done", <<>>)
  /\ UNCHANGED <<localEnv, remoteEnv, strategy, conflicts, finalEnv, storedApiKey,
                 drawn, localFile, backups, remoteStore>>
  /\ UNCHANGED exceptCommands

\* push with config.storage.provider set: pushToStorageProvider is entered
\* with no authentication check
StartProviderPush ==
  /\ cmd.pc = "idle"
  /\ cloudProvider # NULL
  /\ cmd' = Begin("push", FALSE, "readLocal")
  /\ UNCHANGED <<localEnv, remoteEnv, strategy, conflicts, finalEnv, storedApiKey,
                 drawn, localFile, backups, remoteStore, manifest, cmdLog>>
  /\ UNCHANGED exceptCommands

\* pushToStorageProvider: provider.store(environment, localEnv); the config
\* entry of the environment is not touched
ProviderPushStore(accepted) ==
  LET stored == ProviderStore(cloudProvider, cloudSecrets, ProjectEnvironment, localEnv)
  IN /\ At("push", "store")
     /\ cloudSecrets' = IF accepted THEN stored.secrets ELSE cloudSecrets
     /\ cmdLog' = Append(cmdLog, "storeRemote")
     /\ cmd' = IF accepted /\ stored.ok THEN Goto("saveConfig")
               ELSE Finish("failed", <<>>)
     /\ UNCHANGED <<localEnv, remoteEnv, strategy, conflicts, finalEnv, storedApiKey,
                    drawn, localFile, backups, remoteStore, manifest>>
     /\ UNCHANGED <<docVars, codecVars, apiVars, cloudProvider, cloudStored,
                    cloudResult, phase, cryptoData, blobs, cryptoResult, finished>>

NextCommands ==
  \/ \E force \in BOOLEAN, authenticated \in BOOLEAN : StartSync(force, authenticated)
  \/ SyncReadLocal
  \/ \E reachable \in BOOLEAN : SyncReadRemote(reachable)
  \/ SyncDetect
  \/ SyncForceWrite
  \/ \E resolution \in Resolutions : SyncPrompt(resolution)
  \/ SyncMerge
  \/ SyncBackup
  \/ SyncWriteLocal
  \/ \E accepted \in BOOLEAN : SyncUpdateRemote(accepted)
  \/ SyncSaveConfig
  \/ \E authenticated \in BOOLEAN : StartPull(authenticated)
  \/ PullBackup
  \/ \E reachable \in BOOLEAN : PullFetch(reachable)
  \/ PullWriteLocal
  \/ PullSaveConfig
  \/ \E authenticated \in BOOLEAN : StartPush(authenticated)
  \/ PushReadLocal
  \/ \E accepted \in BOOLEAN : PushUpload(accepted)
  \/ PushSaveConfig

SpecCommands == InitCommands /\ [][NextCommands]_vars

(* ===================== commands run one after another ================== *)
\* the command has ended and the next invocation starts: a new process,
\* with the files, the configuration and the remote as they were left
NextCommand ==
  /\ cmd.pc = "exit"
  /\ Len(finished) + 1 < MaxCommands
  /\ finished' = Append(finished, [name |-> cmd.name, outcome |-> cmd.outcome,
                                   fetched |-> cmd.fetched])
  /\ cmd' = NoCommand
  /\ cmdLog' = <<>>
  /\ localEnv' = <<>>
  /\ remoteEnv' = <<>>
  /\ strategy' = "prompt"
  /\ conflicts' = NoConflicts
  /\ finalEnv' = <<>>
  /\ UNCHANGED <<storedApiKey, drawn, localFile, backups, remoteStore, manifest>>
  /\ UNCHANGED <<docVars, codecVars, apiVars, cloudVars, phase, cryptoData, blobs,
                 cryptoResult>>

\* a project as `envfly init` leaves it: no environment pushed yet, on the
\* EnvFly service or on one of the storage providers
InitPushes ==
  /\ DocNew
  /\ CodecIdle
  /\ ApiIdle
  /\ localEnv = <<>>
  /\ remoteEnv = <<>>
  /\ strategy = "prompt"
  /\ conflicts = NoConflicts
  /\ finalEnv = <<>>
  /\ phase = "idle"
  /\ storedApiKey \in ApiKeys
  /\ drawn = 0
  /\ cryptoData = <<>>
  /\ blobs = <<>>
  /\ cryptoResult = NoCall
  /\ cloudProvider \in {NULL} \cup CloudProviders
  /\ cloudSecrets = [name \in SecretNames |-> NoSecret]
  /\ cloudStored = [environment \in Environments |-> <<>>]
  /\ cloudResult = NoCloudCall
  /\ localFile \in {[exists |-> FALSE, content |-> <<>>]}
                     \cup {writeEnvFile(env) : env \in LocalSnapshots}
  /\ backups = <<>>
  /\ remoteStore = NoRemote
  /\ manifest \in
       {[remote_id |-> NULL, encryption |-> enabled,
         last_push |-> 0, last_pull |-> 0, last_sync |-> 0] : enabled \in BOOLEAN}
  /\ cmd = NoCommand
  /\ cmdLog = <<>>
  /\ finished = <<>>

NextPushes ==
  \/ \E authenticated \in BOOLEAN : StartPush(authenticated)
  \/ StartProviderPush
  \/ PushReadLocal
  \/ \E accepted \in BOOLEAN : PushUpload(accepted)
  \/ \E accepted \in BOOLEAN : ProviderPushStore(accepted)
  \/ PushSaveConfig
  \/ NextCommand

SpecPushes == InitPushes /\ [][NextPushes]_vars

NextResync ==
  \/ \E force \in BOOLEAN, authenticated \in BOOLEAN : StartSync(force, authenticated)
  \/ SyncReadLocal
  \/ \E reachable \in BOOLEAN : SyncReadRemote(reachable)
  \/ SyncDetect
  \/ SyncForceWrite
  \/ \E resolution \in Resolutions : SyncPrompt(resolution)
  \/ SyncMerge
  \/ SyncBackup
  \/ SyncWriteLocal
  \/ \E accepted \in BOOLEAN : SyncUpdateRemote(accepted)
  \/ SyncSaveConfig
  \/ NextCommand

SpecResync == InitCommands /\ [][NextResync]_vars

(* ========================== claims: commands =========================== *)
Logged(event) == \E i \in DOMAIN cmdLog : cmdLog[i] = event

\* the snapshot the command is about to apply, once the command has it
HasApplied ==
  \/ cmd.name = "push" /\ Logged("readLocal") /\ cmd.existed
  \/ cmd.name = "pull" /\ Logged("readRemote")
  \/ cmd.name = "sync" /\ cmd.force /\ Logged("detect") /\ hasConflicts(conflicts)
  \/ cmd.name = "sync" /\ ~cmd.force /\ Logged("merge")

AppliedEnv ==
  CASE cmd.name = "push" -> localEnv
    [] cmd.name = "pull" -> remoteEnv
    [] cmd.name = "sync" /\ cmd.force -> remoteEnv
    [] OTHER -> finalEnv

\* C15: in push, pull and sync, when the snapshot about to be applied has a
\* key that is no identifier or a null value, the command fails reporting
\* every offending key, and it has written no local file, made no remote
\* store call and not updated the manifest.
C15_InvalidSnapshotNeverApplied ==
  (HasApplied /\ ~validateEnvironment(AppliedEnv).valid) =>
    /\ ~Logged("writeLocal")
    /\ ~Logged("updateRemote")
    /\ ~Logged("createRemote")
    /\ ~Logged("saveConfig")
    /\ cmd.pc = "exit" =>
         (cmd.outcome = "failed" /\ cmd.errors = validateEnvironment(AppliedEnv).errors)

\* C17: in every pull and every sync, force mode included, an overwrite of a
\* local file that existed is preceded in the same invocation by a backup.
C17_BackupBeforeOverwrite ==
  (cmd.name \in {"pull", "sync"} /\ cmd.existed) =>
    \A i \in DOMAIN cmdLog :
      cmdLog[i] = "writeLocal" => \E j \in 1..(i - 1) : cmdLog[j] = "backup"

\* the place of each step in the order read-local, read-remote, detect,
\* merge, persist-local (backup, then write), persist-remote, bookkeeping
StepOrder ==
  [readLocal |-> 1, readRemote |-> 2, detect |-> 3, merge |-> 4, backup |-> 5,
   writeLocal |-> 6, updateRemote |-> 7, createRemote |-> 7, saveConfig |-> 8]

LoggedIn(log, event) == \E i \in DOMAIN log : log[i] = event

\* what the local file holds, read as readEnvFile reads it ({} when missing)
LocalNow == IF localFile.exists THEN readEnvFile(localFile) ELSE <<>>

\* C21: a push of an environment whose local file does not exist takes the
\* local snapshot to be empty and goes on to the remote store call instead
\* of failing at the read.
C21_PushOfMissingFileProceeds ==
  (cmd.name = "push" /\ ~cmd.existed /\ Logged("readLocal") /\ cmd.pc = "exit") =>
    /\ localEnv = <<>>
    /\ Logged("updateRemote") \/ Logged("createRemote")

\* C23: a pull that wrote the local file from a payload marked encrypted
\* decrypted that payload, whatever the local encryption setting: the
\* payload decrypts under the stored key and none of the blob's fields
\* (encrypted, iv, tag, salt, algorithm) is a variable of the file.
C23_PullDecryptsMarkedPayload ==
  (cmd.name = "pull" /\ remoteStore.encrypted /\ Logged("writeLocal")) =>
    /\ decryptFileContent(remoteStore.payload, storedApiKey).ok
    /\ \A i \in DOMAIN LocalNow : LocalNow[i].key \notin BlobFields

\* C26: sync calls the remote update only under the resolution 'local' with
\* a remote_id recorded; under 'remote', 'merge' and force mode the remote
\* is left alone, no remote environment is ever created, and a failed
\* update leaves the written local file in place and the sync succeeding.
C26_SyncRemoteWriteOnlyUnderLocal ==
  [][cmd'.name = "sync" =>
       /\ LoggedIn(cmdLog', "updateRemote") =>
            (strategy' = "local" /\ ~cmd'.force /\ manifest'.remote_id # NULL)
       /\ ~LoggedIn(cmdLog', "createRemote")
       /\ remoteStore' # remoteStore =>
            (At("sync", "updateRemote") /\ remoteStore'.exists = remoteStore.exists)
       /\ manifest'.remote_id = manifest.remote_id
       /\ At("sync", "updateRemote") =>
            /\ localFile = writeEnvFile(finalEnv)
            /\ localFile' = localFile
            /\ cmd'.outcome = "running"
       /\ (Logged("writeLocal") /\ cmd'.pc = "exit") => cmd'.outcome = "done"]_vars

\* a sync under 'local' whose remote update was refused: the plain payload
\* is still there, the merged file is written and the sync is done
C26_Witness ==
  /\ cmd.name = "sync"
  /\ cmd.outcome = "done"
  /\ strategy = "local"
  /\ Logged("updateRemote")
  /\ remoteStore.payload.form = "plain"
  /\ remoteStore.payload.env # finalEnv
  /\ localFile = writeEnvFile(finalEnv)

\* C29: sync never removes a variable from the local file: every key the
\* file held when the sync read it is still in the file afterwards, under
\* every resolution, in force mode and when the remote could not be fetched.
C29_SyncKeepsLocalKeys ==
  (cmd.name = "sync" /\ Logged("readLocal")) =>
    \A i \in DOMAIN localEnv :
      \E j \in DOMAIN LocalNow : LocalNow[j].key = localEnv[i].key

\* C30: the payload a sync writes to the remote follows the rule of push:
\* it is an encrypted blob if and only if encryption is enabled in the
\* project configuration.
C30_SyncPayloadFollowsPushRule ==
  [][(cmd.name = "sync" /\ remoteStore' # remoteStore) =>
       ((remoteStore'.payload.form = "blob") <=> isEncryptionEnabled(manifest))]_vars

\* C27: the key comes from the API key stored when the call is made, so a
\* payload encrypted while another API key was stored cannot be decrypted:
\* a pull or a sync that fetched such a payload gets no data from it, writes
\* nothing to the local file and fails.
C27_OtherMembersPayloadFails ==
  (/\ cmd.name \in {"pull", "sync"}
   /\ cmd.fetched
   /\ remoteStore.encrypted
   /\ remoteStore.payload.form = "blob"
   /\ EncryptionApiKey(remoteStore.payload.blob[1]) # storedApiKey) =>
    /\ remoteEnv = <<>>
    /\ ~Logged("writeLocal")
    /\ cmd.pc = "exit" => cmd.outcome = "failed"

\* a push of the environment has succeeded
PushSucceeded ==
  \/ \E i \in DOMAIN finished :
       finished[i].name = "push" /\ finished[i].outcome = "done"
  \/ cmd.name = "push" /\ cmd.outcome = "done"

\* C22: after any sequence of pushes, on the EnvFly service or a storage
\* provider, the manifest entry has a remote_id if and only if a push has
\* succeeded; and a push to the EnvFly service issues a create exactly when
\* no remote_id is recorded, an update of the recorded one otherwise.
C22_HandleIffPushed ==
  /\ [](cmd.pc \in {"idle", "exit"} => ((manifest.remote_id # NULL) <=> PushSucceeded))
  /\ [][(At("push", "upload") /\ cmdLog' # cmdLog) =>
          IF manifest.remote_id = NULL
            THEN LoggedIn(cmdLog', "createRemote") /\ ~LoggedIn(cmdLog', "updateRemote")
            ELSE LoggedIn(cmdLog', "updateRemote") /\ ~LoggedIn(cmdLog', "createRemote")]_vars

\* C28: a sync that follows at once a sync that succeeded with the remote
\* fetched finds nothing added, removed or modified.
C28_SecondSyncFindsNoConflict ==
  (/\ finished # <<>>
   /\ finished[Len(finished)] = [name |-> "sync", outcome |-> "done", fetched |-> TRUE]
   /\ cmd.name = "sync"
   /\ cmd.fetched
   /\ Logged("detect")) =>
    ~hasConflicts(conflicts)

====
